---- MODULE Spec2Model ----
(***************************************************************************)
(* querycraft: the fluent SQL builders (select, insert, update, delete,    *)
(* upsert), the MySQL dialect and the pagination helpers, as a state       *)
(* machine.                                                                *)
(*                                                                         *)
(* Text.  A Go string holding SQL is modelled as the sequence of its       *)
(* lexical tokens; strings.Join(parts, " ") is concatenation of token      *)
(* sequences, strings.HasPrefix(x, "AND ") is "the first token is AND and  *)
(* another token follows".  Parentheses, commas and the identifier quote   *)
(* character are tokens of their own.  A token is a pair <<text, tag>>:    *)
(* the tag is history information (0 on every token but a placeholder,     *)
(* where it is the argument value the placeholder was emitted for); no     *)
(* operator that models code reads a tag.                                  *)
(*                                                                         *)
(* Slices.  A Go slice is a header [arr, len] into a heap of backing       *)
(* arrays; cap is the length of the backing array.  append writes in place *)
(* when len < cap and reallocates otherwise, make/copy allocate and copy,  *)
(* so sharing of a backing array between two builders is representable.    *)
(* Arrays no builder reaches are collected after every call.               *)
(***************************************************************************)
EXTENDS Integers, Sequences, FiniteSets, TLC

VARIABLES
    strs,      \* heap of []string backing arrays (elements are texts)
    anys,      \* heap of []any backing arrays (elements are argument values)
    sel,       \* the select builders: "s" is the builder the caller drives, "c" its clone
    cloned,    \* TRUE once Clone() has produced builder "c"
    stk,       \* open WhereGroup/OrWhereGroup callbacks, innermost first
    gh,        \* history: per select builder, the predicate calls made on it
    nops,      \* number of builder calls made so far
    last,      \* history: the last call and the builder that received it
    out,       \* the (SQL, args) pair returned by the last ToSQL
    kind,      \* which scenario the caller is running
    del,       \* the delete builder
    ins,       \* the insert builder
    upd,       \* the update builder
    ups,       \* the upsert builder
    db,        \* the database: the rows of table users and the statements it was handed
    pag,       \* the result of the last Paginate / KeysetPaginate call
    trav,      \* the keyset traversal of the caller: page size, direction, pages so far
    clones     \* the clones taken of the delete, insert and update builder

vars == <<strs, anys, sel, cloned, stk, gh, nops, last, out, kind,
          del, ins, upd, ups, db, pag, trav, clones>>

-----------------------------------------------------------------------------
(* Bounds *)

MaxOps == 3
MaxDepth == 2
MaxCloneOps == 4
MaxClauseCalls == 1
MaxRows == 5
MaxPerPage == 2
MaxPage == 2
MaxUpsertOps == 4
MaxGroupOps == 4

-----------------------------------------------------------------------------
(* Tokens and texts *)

T(s) == <<s, 0>>

Txt(ss) == [i \in DOMAIN ss |-> T(ss[i])]

RECURSIVE Flatten(_)
Flatten(parts) ==
    IF parts = <<>> THEN <<>> ELSE Head(parts) \o Flatten(Tail(parts))

RECURSIVE JoinSep(_, _)
JoinSep(parts, sep) ==
    IF parts = <<>> THEN <<>>
    ELSE IF Len(parts) = 1 THEN parts[1]
    ELSE parts[1] \o sep \o JoinSep(Tail(parts), sep)

HasPrefixTok(text, s) == Len(text) >= 2 /\ text[1][1] = s

HasPrefixParen(text) == Len(text) >= 1 /\ text[1][1] = "("

TrimPrefixTok(text, s) == IF HasPrefixTok(text, s) THEN Tail(text) ELSE text

(* The element of a one-element set.  Only({e(x) : x \in {v}}) is e(v) with *)
(* v computed once: it names an intermediate result, as := does in the code.*)
Only(S) == CHOOSE x \in S : TRUE

-----------------------------------------------------------------------------
(* Go slices *)

NilAddr == <<"", "", 0>>

NilSlice == [arr |-> NilAddr, len |-> 0]

Cap(m, sl) == IF sl.arr = NilAddr THEN 0 ELSE Len(m[sl.arr])

Elems(m, sl) == IF sl.arr = NilAddr THEN <<>> ELSE SubSeq(m[sl.arr], 1, sl.len)

(* The address of a new backing array: addresses are abstract, an array is *)
(* named by the builder and field it is allocated for and a serial number  *)
(* that is free in the heap.                                               *)
Fresh(m, owner, field) ==
    <<owner, field,
      CHOOSE k \in 1..(Cardinality(DOMAIN m) + 1) :
          /\ <<owner, field, k>> \notin DOMAIN m
          /\ \A j \in 1..(k - 1) : <<owner, field, j>> \in DOMAIN m>>

Alloc(m, addr, arr) == [a \in DOMAIN m \cup {addr} |-> IF a = addr THEN arr ELSE m[a]]

(* runtime.growslice for the 16-byte elements (string, any) and the sizes  *)
(* that occur here: double the capacity, or the needed length if larger.   *)
Grow(oldcap, newlen) == IF newlen > 2 * oldcap THEN newlen ELSE 2 * oldcap

Pad(xs, n, zero) == [i \in 1..n |-> IF i <= Len(xs) THEN xs[i] ELSE zero]

GoAppend(m, sl, xs, zero, addr) ==
    LET newlen == sl.len + Len(xs) IN
    IF Len(xs) = 0 THEN [m |-> m, sl |-> sl]
    ELSE IF newlen <= Cap(m, sl)
    THEN [m  |-> [m EXCEPT ![sl.arr] =
                     [i \in 1..Len(@) |->
                         IF i > sl.len /\ i <= newlen THEN xs[i - sl.len] ELSE @[i]]],
          sl |-> [arr |-> sl.arr, len |-> newlen]]
    ELSE [m  |-> Alloc(m, addr, Pad(Elems(m, sl) \o xs, Grow(Cap(m, sl), newlen), zero)),
          sl |-> [arr |-> addr, len |-> newlen]]

MakeCopy(m, src, addr) ==
    IF src.len = 0 THEN [m |-> m, sl |-> NilSlice]
    ELSE [m |-> Alloc(m, addr, Elems(m, src)), sl |-> [arr |-> addr, len |-> src.len]]

SliceLit(m, xs, addr) ==
    IF Len(xs) = 0 THEN [m |-> m, sl |-> NilSlice]
    ELSE [m |-> Alloc(m, addr, xs), sl |-> [arr |-> addr, len |-> Len(xs)]]

Restrict(m, live) == [a \in DOMAIN m \cap live |-> m[a]]

NilPtr == [nil |-> TRUE, val |-> 0]

Ptr(v) == [nil |-> FALSE, val |-> v]

-----------------------------------------------------------------------------
(* MySQL dialect *)

QuoteChar == "'"

PlaceholderFormat == "?"

Ph(v) == <<PlaceholderFormat, v>>

RECURSIVE DoubleQuotes(_)
DoubleQuotes(name) ==
    IF name = <<>> THEN <<>>
    ELSE (IF Head(name)[1] = QuoteChar THEN <<Head(name), Head(name)>> ELSE <<Head(name)>>)
         \o DoubleQuotes(Tail(name))

QuoteIdentifier(name) == <<T(QuoteChar)>> \o DoubleQuotes(name) \o <<T(QuoteChar)>>

Num(n) == T(ToString(n))

SelectLimit(limit) == <<T("LIMIT"), Num(limit)>>

SelectOffset(offset) == <<T("OFFSET"), Num(offset)>>

SelectOrderBy(column, desc) ==
    IF desc THEN Txt(<<"ORDER", "BY">>) \o QuoteIdentifier(column) \o <<T("DESC")>>
    ELSE Txt(<<"ORDER", "BY">>) \o QuoteIdentifier(column)

DeleteLimit(limit) == <<T("LIMIT"), Num(limit)>>

-----------------------------------------------------------------------------
(* Select builder: state *)

NewSelectBuilder(columns) ==
    [columns |-> columns, table |-> <<>>, joins |-> NilSlice,
     wheres |-> NilSlice, whereArgs |-> NilSlice, orders |-> NilSlice,
     groups |-> NilSlice, havings |-> NilSlice, havingArgs |-> NilSlice,
     limit |-> NilPtr, offset |-> NilPtr, logger |-> FALSE]

(* A method call on the builder at address M.id, in the heaps M.strs and    *)
(* M.anys, returns the heaps and the builder as the call leaves them.      *)
Res(strs_, anys_, b) == [strs |-> strs_, anys |-> anys_, b |-> b]

From(M, s, table) == Res(M.strs, M.anys, [s EXCEPT !.table = table])

(* Select builder: predicates.  Every predicate method is two appends, one *)
(* to s.wheres and one to s.whereArgs.                                     *)

AppendWhere(M, s, fragment, args) ==
    LET r1 == GoAppend(M.strs, s.wheres, <<fragment>>, <<>>, Fresh(M.strs, M.id, "wheres"))
        r2 == GoAppend(M.anys, s.whereArgs, args, 0, Fresh(M.anys, M.id, "whereArgs"))
    IN  Res(r1.m, r2.m, [s EXCEPT !.wheres = r1.sl, !.whereArgs = r2.sl])

Placeholders(values) == [i \in DOMAIN values |-> <<Ph(values[i])>>]

Where(M, s, column, operator, value) ==
    AppendWhere(M, s, QuoteIdentifier(column) \o operator \o <<Ph(value)>>, <<value>>)

WhereEq(M, s, column, value) == Where(M, s, column, <<T("=")>>, value)

WhereIn(M, s, column, values) ==
    AppendWhere(M, s,
        QuoteIdentifier(column) \o Txt(<<"IN", "(">>)
            \o JoinSep(Placeholders(values), <<T(",")>>) \o <<T(")")>>,
        values)

WhereNotIn(M, s, column, values) ==
    AppendWhere(M, s,
        QuoteIdentifier(column) \o Txt(<<"NOT", "IN", "(">>)
            \o JoinSep(Placeholders(values), <<T(",")>>) \o <<T(")")>>,
        values)

WhereNull(M, s, column) ==
    AppendWhere(M, s, QuoteIdentifier(column) \o Txt(<<"IS", "NULL">>), <<>>)


(* A faulty WhereBetween: the two bounds are stored in the wrong order.     *)
WhereBetween_SwappedArgs(M, s, column, from, to) ==
    AppendWhere(M, s,
        QuoteIdentifier(column) \o <<T("BETWEEN"), Ph(from), T("AND"), Ph(to)>>,
        <<to, from>>)

WhereBetween(M, s, column, from, to) ==
    AppendWhere(M, s,
        QuoteIdentifier(column) \o <<T("BETWEEN"), Ph(from), T("AND"), Ph(to)>>,
        <<from, to>>)


WhereRaw(M, s, condition, args) == AppendWhere(M, s, condition, args)

WhereExists(M, s, subSql, subArgs) ==
    AppendWhere(M, s, Txt(<<"EXISTS", "(">>) \o subSql \o <<T(")")>>, subArgs)


OrWhere(M, s, column, operator, value) ==
    AppendWhere(M, s,
        <<T("OR")>> \o QuoteIdentifier(column) \o operator \o <<Ph(value)>>, <<value>>)


OrWhereIn(M, s, column, values) ==
    AppendWhere(M, s,
        <<T("OR")>> \o QuoteIdentifier(column) \o Txt(<<"IN", "(">>)
            \o JoinSep(Placeholders(values), <<T(",")>>) \o <<T(")")>>,
        values)


OrWhereRaw(M, s, condition, args) == AppendWhere(M, s, <<T("OR")>> \o condition, args)

(* WhereGroup / OrWhereGroup: the builder handed to the callback, and the   *)
(* merge of what the callback left in it into the outer builder.           *)

groupBuilder == NewSelectBuilder(NilSlice)

groupWhereParts(wheres) ==
    [i \in DOMAIN wheres |->
        IF i = 1 THEN wheres[i]
        ELSE IF HasPrefixTok(wheres[i], "AND") \/ HasPrefixTok(wheres[i], "OR")
                \/ HasPrefixParen(wheres[i])
             THEN wheres[i]
             ELSE <<T("AND")>> \o wheres[i]]

(* A faulty WhereGroup: the limit the callback set is taken over.           *)
WhereGroup_TakesLimit(M, s, sb) ==
    IF sb.wheres.len > 0
    THEN LET inner == Flatten(groupWhereParts(Elems(M.strs, sb.wheres)))
             frag  == IF s.wheres.len > 0
                      THEN Txt(<<"AND", "(">>) \o inner \o <<T(")")>>
                      ELSE <<T("(")>> \o inner \o <<T(")")>>
         IN  AppendWhere(M, [s EXCEPT !.limit = sb.limit], frag, Elems(M.anys, sb.whereArgs))
    ELSE Res(M.strs, M.anys, s)

(* A faulty WhereGroup: the group never gets its AND.                       *)
WhereGroup_NoConnective(M, s, sb) ==
    IF sb.wheres.len > 0
    THEN LET inner == Flatten(groupWhereParts(Elems(M.strs, sb.wheres)))
         IN  AppendWhere(M, s, <<T("(")>> \o inner \o <<T(")")>>, Elems(M.anys, sb.whereArgs))
    ELSE Res(M.strs, M.anys, s)

WhereGroup(M, s, sb) ==
    IF sb.wheres.len > 0
    THEN LET inner == Flatten(groupWhereParts(Elems(M.strs, sb.wheres)))
             frag  == IF s.wheres.len > 0
                      THEN Txt(<<"AND", "(">>) \o inner \o <<T(")")>>
                      ELSE <<T("(")>> \o inner \o <<T(")")>>
         IN  AppendWhere(M, s, frag, Elems(M.anys, sb.whereArgs))
    ELSE Res(M.strs, M.anys, s)

orGroupWhereParts(wheres) ==
    [i \in DOMAIN wheres |->
        IF i = 1 THEN wheres[i]
        ELSE IF HasPrefixTok(wheres[i], "AND") \/ HasPrefixTok(wheres[i], "OR")
                \/ HasPrefixParen(wheres[i])
             THEN wheres[i]
             ELSE <<T("AND")>> \o wheres[i]]

OrWhereGroup(M, s, sb) ==
    IF sb.wheres.len > 0
    THEN LET inner == Flatten(orGroupWhereParts(Elems(M.strs, sb.wheres)))
             frag  == IF s.wheres.len > 0
                      THEN Txt(<<"OR", "(">>) \o inner \o <<T(")")>>
                      ELSE <<T("(")>> \o inner \o <<T(")")>>
         IN  AppendWhere(M, s, frag, Elems(M.anys, sb.whereArgs))
    ELSE Res(M.strs, M.anys, s)

(* Select builder: joins, ordering, grouping, limits *)

(* strings.ToUpper on the words that occur here *)
ToUpper(tok) ==
    CASE tok[1] \in {"order", "Order"} -> "ORDER"
      [] tok[1] \in {"by", "By"} -> "BY"
      [] tok[1] \in {"and", "And", "aNd"} -> "AND"
      [] tok[1] \in {"or", "Or"} -> "OR"
      [] tok[1] \in {"on", "On"} -> "ON"
      [] tok[1] \in {"as", "As"} -> "AS"
      [] OTHER -> tok[1]

Keywords == {"AND", "OR", "ON", "AS"}

Symbols == {"=", "<", ">", "(", ")", ",", ".", "?", "*", "1", "2", QuoteChar}

(* A token the pattern [a-zA-Z_][a-zA-Z0-9_]* matches *)
IsIdentifier(tok) == tok[1] \notin Symbols

(* The number of tokens the pattern of quoteJoinCondition matches at the   *)
(* head of the text: an identifier and every .identifier that follows it.  *)
RECURSIVE MatchLen(_)
MatchLen(text) ==
    IF text = <<>> \/ ~IsIdentifier(Head(text)) THEN 0
    ELSE IF Len(text) >= 3 /\ text[2][1] = "." /\ IsIdentifier(text[3])
         THEN 2 + MatchLen(Tail(Tail(text)))
         ELSE 1

RECURSIVE quoteJoinCondition(_)
quoteJoinCondition(condition) ==
    IF condition = <<>> THEN <<>>
    ELSE IF MatchLen(condition) = 0
    THEN <<Head(condition)>> \o quoteJoinCondition(Tail(condition))
    ELSE LET n          == MatchLen(condition)
             identifier == SubSeq(condition, 1, n)
         IN  (IF n = 1 /\ ToUpper(identifier[1]) \in Keywords
              THEN identifier
              ELSE QuoteIdentifier(identifier))
             \o quoteJoinCondition(SubSeq(condition, n + 1, Len(condition)))

quoteTableNameWithAlias(tableName) ==
    IF Len(tableName) >= 2
    THEN LET rest == Tail(tableName)
             alias == IF Len(rest) >= 2 /\ rest[1][1] \in {"as", "AS"} THEN Tail(rest) ELSE rest
         IN  QuoteIdentifier(<<Head(tableName)>>) \o <<T("as")>> \o alias
    ELSE QuoteIdentifier(tableName)

AppendJoin(M, s, text) ==
    LET r == GoAppend(M.strs, s.joins, <<text>>, <<>>, Fresh(M.strs, M.id, "joins"))
    IN  Res(r.m, M.anys, [s EXCEPT !.joins = r.sl])

InnerJoin(M, s, table, condition) ==
    AppendJoin(M, s, Txt(<<"INNER", "JOIN">>) \o quoteTableNameWithAlias(table)
                     \o <<T("ON")>> \o quoteJoinCondition(condition))

Join(M, s, table, condition) == InnerJoin(M, s, table, condition)

LeftJoin(M, s, table, condition) ==
    AppendJoin(M, s, Txt(<<"LEFT", "JOIN">>) \o quoteTableNameWithAlias(table)
                     \o <<T("ON")>> \o quoteJoinCondition(condition))

AppendOrder(M, s, text) ==
    LET r == GoAppend(M.strs, s.orders, <<text>>, <<>>, Fresh(M.strs, M.id, "orders"))
    IN  Res(r.m, M.anys, [s EXCEPT !.orders = r.sl])

OrderBy(M, s, column) == AppendOrder(M, s, SelectOrderBy(column, FALSE))

OrderByDesc(M, s, column) == AppendOrder(M, s, SelectOrderBy(column, TRUE))

OrderByRaw(M, s, expression) == AppendOrder(M, s, expression)

GroupBy(M, s, columns) ==
    LET r == GoAppend(M.strs, s.groups,
                      [i \in DOMAIN columns |-> QuoteIdentifier(columns[i])], <<>>,
                      Fresh(M.strs, M.id, "groups"))
    IN  Res(r.m, M.anys, [s EXCEPT !.groups = r.sl])

Having(M, s, condition, args) ==
    LET r1 == GoAppend(M.strs, s.havings, <<condition>>, <<>>, Fresh(M.strs, M.id, "havings"))
        r2 == GoAppend(M.anys, s.havingArgs, args, 0, Fresh(M.anys, M.id, "havingArgs"))
    IN  Res(r1.m, r2.m, [s EXCEPT !.havings = r1.sl, !.havingArgs = r2.sl])

Limit(M, s, limit) == Res(M.strs, M.anys, [s EXCEPT !.limit = Ptr(limit)])

Offset(M, s, offset) == Res(M.strs, M.anys, [s EXCEPT !.offset = Ptr(offset)])

Page(M, s, page, perPage) ==
    LET r == Limit(M, s, perPage) IN Offset(M, r.b, (page - 1) * perPage)

SetColumns(M, s, columns) ==
    LET r == SliceLit(M.strs, columns, Fresh(M.strs, M.id, "columns"))
    IN  Res(r.m, M.anys, [s EXCEPT !.columns = r.sl])

(* Clone: every slice is make(len) + copy, limit and offset are copied     *)
(* pointers (no code writes through them); the struct literal names no     *)
(* logger, so the clone has none.                                          *)

(* A faulty Clone: the struct is copied, so the slices of the clone keep    *)
(* the backing arrays of the original.                                     *)
Clone_Shallow(M, s, c) == Res(M.strs, M.anys, s)

Clone(M, s, c) ==
    LET c1 == MakeCopy(M.strs, s.columns, Fresh(M.strs, c, "columns"))
        c2 == MakeCopy(c1.m, s.joins, Fresh(c1.m, c, "joins"))
        c3 == MakeCopy(c2.m, s.wheres, Fresh(c2.m, c, "wheres"))
        c4 == MakeCopy(c3.m, s.orders, Fresh(c3.m, c, "orders"))
        c5 == MakeCopy(c4.m, s.groups, Fresh(c4.m, c, "groups"))
        c6 == MakeCopy(c5.m, s.havings, Fresh(c5.m, c, "havings"))
        a1 == MakeCopy(M.anys, s.whereArgs, Fresh(M.anys, c, "whereArgs"))
        a2 == MakeCopy(a1.m, s.havingArgs, Fresh(a1.m, c, "havingArgs"))
    IN  Res(c6.m, a2.m,
            [columns |-> c1.sl, table |-> s.table, joins |-> c2.sl,
             wheres |-> c3.sl, whereArgs |-> a1.sl, orders |-> c4.sl,
             groups |-> c5.sl, havings |-> c6.sl, havingArgs |-> a2.sl,
             limit |-> s.limit, offset |-> s.offset, logger |-> FALSE])

(* Select builder: rendering *)

selectClause(columns) ==
    IF Len(columns) = 0 THEN Txt(<<"SELECT", "*">>)
    ELSE <<T("SELECT")>>
         \o JoinSep([i \in DOMAIN columns |-> QuoteIdentifier(columns[i])], <<T(",")>>)

fromClause(table) ==
    IF table # <<>> THEN <<T("FROM")>> \o quoteTableNameWithAlias(table) ELSE <<>>

joinClause(joins) == Flatten(joins)

selWhereParts(wheres) ==
    [i \in DOMAIN wheres |->
        IF i = 1 THEN wheres[i]
        ELSE IF HasPrefixTok(wheres[i], "AND") \/ HasPrefixTok(wheres[i], "OR")
                \/ HasPrefixParen(wheres[i])
             THEN wheres[i]
             ELSE <<T("AND")>> \o wheres[i]]

(* A faulty selWhereClause: only a leading AND is trimmed.                  *)
selWhereClause_TrimAndOnly(wheres) ==
    TrimPrefixTok(Flatten(selWhereParts(wheres)), "AND")

selWhereClause(wheres) ==
    TrimPrefixTok(TrimPrefixTok(Flatten(selWhereParts(wheres)), "AND"), "OR")

whereSection(wheres) ==
    IF Len(wheres) > 0 THEN <<T("WHERE")>> \o selWhereClause(wheres) ELSE <<>>

groupClause(groups) ==
    IF Len(groups) > 0 THEN Txt(<<"GROUP", "BY">>) \o JoinSep(groups, <<T(",")>>) ELSE <<>>

havingClause(havings) ==
    IF Len(havings) > 0 THEN <<T("HAVING")>> \o Flatten(havings) ELSE <<>>

orderParts(orders) ==
    [i \in DOMAIN orders |->
        IF Len(orders[i]) >= 2 /\ ToUpper(orders[i][1]) = "ORDER" /\ ToUpper(orders[i][2]) = "BY"
        THEN orders[i]
        ELSE Txt(<<"ORDER", "BY">>) \o orders[i]]

orderClause(orders) == Flatten(orderParts(orders))

limitClause(limit) == IF ~limit.nil THEN SelectLimit(limit.val) ELSE <<>>

offsetClause(offset) == IF ~offset.nil THEN SelectOffset(offset.val) ELSE <<>>

buildArgs(whereArgs, nWheres, havingArgs, nHavings) ==
    (IF nWheres > 0 THEN whereArgs ELSE <<>>) \o (IF nHavings > 0 THEN havingArgs ELSE <<>>)

(* A faulty queryParts: HAVING is emitted in front of GROUP BY.             *)
queryParts_HavingFirst(M, s) ==
    <<selectClause(Elems(M.strs, s.columns)),
      fromClause(s.table),
      joinClause(Elems(M.strs, s.joins)),
      whereSection(Elems(M.strs, s.wheres)),
      havingClause(Elems(M.strs, s.havings)),
      groupClause(Elems(M.strs, s.groups)),
      orderClause(Elems(M.strs, s.orders)),
      limitClause(s.limit),
      offsetClause(s.offset)>>

queryParts(M, s) ==
    <<selectClause(Elems(M.strs, s.columns)),
      fromClause(s.table),
      joinClause(Elems(M.strs, s.joins)),
      whereSection(Elems(M.strs, s.wheres)),
      groupClause(Elems(M.strs, s.groups)),
      havingClause(Elems(M.strs, s.havings)),
      orderClause(Elems(M.strs, s.orders)),
      limitClause(s.limit),
      offsetClause(s.offset)>>

buildSQL(M, s) ==
    [sql  |-> Flatten(queryParts(M, s)),
     args |-> buildArgs(Elems(M.anys, s.whereArgs), s.wheres.len,
                        Elems(M.anys, s.havingArgs), s.havings.len)]

ToSQL(M, s) == buildSQL(M, s)

-----------------------------------------------------------------------------
(* Inputs of the calls *)

ColId == <<T("id")>>

ColAge == <<T("age")>>

UsersTable == <<T("users")>>

Vals == 1..2

OpEq == <<T("=")>>

OpGt == <<T(">")>>

OpLt == <<T("<")>>

ValLists == {<<>>, <<2, 1>>}

(* Raw conditions: a comparison with one placeholder, a parenthesised      *)
(* disjunction, and a condition that brings its own connective.            *)
RawCond(v) == [cond |-> <<T("x"), T("="), Ph(v)>>, args |-> <<v>>]

RawParen == [cond |-> Txt(<<"(", "y", "=", "1", "OR", "y", "=", "2", ")">>), args |-> <<>>]

RawOr == [cond |-> Txt(<<"OR", "z", "=", "1">>), args |-> <<>>]

(* The subquery handed to WhereExists: Select("id").From("orders").WhereEq("age", 1) *)
Subquery ==
    LET c  == SliceLit(<<>>, <<ColId>>, Fresh(<<>>, "q", "columns"))
        r1 == From([strs |-> c.m, anys |-> <<>>, id |-> "q"], NewSelectBuilder(c.sl),
                   <<T("orders")>>)
        r2 == WhereEq([strs |-> r1.strs, anys |-> r1.anys, id |-> "q"], r1.b, ColAge, 1)
    IN  ToSQL([strs |-> r2.strs, anys |-> r2.anys, id |-> "q"], r2.b)

(* The builder of Select().From("users") *)
UsersQuery == From([strs |-> <<>>, anys |-> <<>>, id |-> "s"], NewSelectBuilder(NilSlice),
                   UsersTable).b

-----------------------------------------------------------------------------
(* The database behind the executor: MySQL holding table users, whose one  *)
(* column is id.  A statement is answered the way MySQL answers it: a      *)
(* quoted name in the select list is a column reference, an unknown column *)
(* or a malformed clause is an error.                                      *)

ClauseKeywords == {"FROM", "INNER", "LEFT", "WHERE", "GROUP", "HAVING", "ORDER", "LIMIT", "OFFSET"}

IndexOf(sql, kw) ==
    IF \E k \in DOMAIN sql : sql[k][1] = kw
    THEN CHOOSE k \in DOMAIN sql : sql[k][1] = kw /\ \A j \in 1..(k - 1) : sql[j][1] # kw
    ELSE 0

Occurrences(sql, kw) == Cardinality({k \in DOMAIN sql : sql[k][1] = kw})

(* The tokens of the clause that keyword kw opens, up to the next clause   *)
Section(sql, kw) ==
    LET i == IndexOf(sql, kw)
        ends == {k \in (i + 1)..Len(sql) : sql[k][1] \in ClauseKeywords}
        j == IF ends = {} THEN Len(sql) + 1
             ELSE CHOOSE k \in ends : \A e \in ends : k <= e
    IN  IF i = 0 THEN <<>> ELSE SubSeq(sql, i + 1, j - 1)

ParseNum(tok) == CHOOSE n \in 0..(MaxPage * MaxPerPage + MaxRows) : ToString(n) = tok[1]

CountList == Txt(<<"COUNT", "(", "*", ")", "as", "count">>)

(* fn(id) as alias, unquoted: the aggregate MySQL computes over column id  *)
AggList(fn, alias) == Txt(<<fn, "(">>) \o ColId \o Txt(<<")", "as", alias>>)

SelectListKind(list) ==
    IF list = <<T("*")>> \/ list = QuoteIdentifier(ColId) THEN "rows"
    ELSE IF list = CountList THEN "count"
    ELSE IF list = AggList("SUM", "sum") THEN "sum"
    ELSE IF list = AggList("AVG", "avg") THEN "avg"
    ELSE IF list = AggList("MAX", "max") THEN "max"
    ELSE IF list = AggList("MIN", "min") THEN "min"
    ELSE "unknown column"

RECURSIVE Total(_)
Total(xs) == IF xs = <<>> THEN 0 ELSE Head(xs) + Total(Tail(xs))

(* The one row of an aggregate: NULL (a nil pointer) over no rows; an      *)
(* average is the pair <<total, number of rows>>.                          *)
AggRow(k, found) ==
    LET asc  == SortSeq(found, LAMBDA a, b : a < b)
        none == found = <<>>
    IN  CASE k = "count" -> [count |-> Len(found)]
          [] k = "sum" -> [sum |-> IF none THEN NilPtr ELSE Ptr(Total(found))]
          [] k = "avg" -> [avg |-> IF none THEN NilPtr ELSE Ptr(<<Total(found), Len(found)>>)]
          [] k = "max" -> [max |-> IF none THEN NilPtr ELSE Ptr(asc[Len(asc)])]
          [] k = "min" -> [min |-> IF none THEN NilPtr ELSE Ptr(asc[1])]

(* WHERE: comparisons of column id with a placeholder, joined by AND *)
Comparisons(where) == (Len(where) + 1) \div 6

WhereSupported(where, args) ==
    /\ where # <<>>
    /\ Len(where) = 6 * Comparisons(where) - 1
    /\ Len(args) = Comparisons(where)
    /\ \A j \in 0..(Comparisons(where) - 1) :
          /\ SubSeq(where, 6 * j + 1, 6 * j + 3) = QuoteIdentifier(ColId)
          /\ where[6 * j + 4][1] \in {"=", "<", ">"}
          /\ where[6 * j + 5][1] = PlaceholderFormat
          /\ j > 0 => where[6 * j][1] = "AND"

Compare(v, op, w) ==
    CASE op = "=" -> v = w
      [] op = "<" -> v < w
      [] op = ">" -> v > w

Matches(id, where, args) ==
    \A j \in 0..(Comparisons(where) - 1) : Compare(id, where[6 * j + 4][1], args[j + 1])

OrderSupported(order) ==
    order \in {<<>>, <<T("BY")>> \o QuoteIdentifier(ColId),
               <<T("BY")>> \o QuoteIdentifier(ColId) \o <<T("DESC")>>}

Window(xs, offset, limit) ==
    SubSeq(xs, offset + 1, IF offset + limit < Len(xs) THEN offset + limit ELSE Len(xs))

Answer(rows, sql, args, list, where, order) ==
    LET hasLim == IndexOf(sql, "LIMIT") > 0
        hasOff == IndexOf(sql, "OFFSET") > 0
        ok     == /\ SelectListKind(list) # "unknown column"
                  /\ Section(sql, "FROM") = QuoteIdentifier(UsersTable)
                  /\ IndexOf(sql, "WHERE") > 0 => WhereSupported(where, args)
                  /\ IndexOf(sql, "WHERE") = 0 => args = <<>>
                  /\ Occurrences(sql, "ORDER") <= 1 /\ OrderSupported(order)
                  /\ hasOff => hasLim
                  /\ \A kw \in {"INNER", "LEFT", "GROUP", "HAVING"} : IndexOf(sql, kw) = 0
        found  == SelectSeq(rows, LAMBDA id : where = <<>> \/ Matches(id, where, args))
        sorted == IF order = <<>> THEN found
                  ELSE IF Len(order) = 4 THEN SortSeq(found, LAMBDA a, b : a < b)
                  ELSE SortSeq(found, LAMBDA a, b : a > b)
        result == IF SelectListKind(list) \in {"rows", "unknown column"}
                  THEN [k \in DOMAIN sorted |-> [id |-> sorted[k]]]
                  ELSE <<AggRow(SelectListKind(list), found)>>
        limit  == IF hasLim THEN ParseNum(Section(sql, "LIMIT")[1]) ELSE Len(result)
        offset == IF hasOff THEN ParseNum(Section(sql, "OFFSET")[1]) ELSE 0
    IN  IF ok THEN [err |-> FALSE, rows |-> Window(result, offset, limit)]
        ELSE [err |-> TRUE, rows |-> <<>>]

Select(rows, sql, args) ==
    Only({Answer(rows, sql, args, list, where, order) :
            list \in {Section(sql, "SELECT")}, where \in {Section(sql, "WHERE")},
            order \in {Section(sql, "ORDER")}})

(* SELECT EXISTS(statement) as _exists: one row, telling whether the       *)
(* statement has a row.                                                    *)
ExistsOpen == Txt(<<"SELECT", "EXISTS", "(">>)

ExistsClose == Txt(<<")", "as", "_exists">>)

IsExistsQuery(sql) ==
    /\ Len(sql) >= 6
    /\ SubSeq(sql, 1, 3) = ExistsOpen
    /\ SubSeq(sql, Len(sql) - 2, Len(sql)) = ExistsClose

Query(rows, sql, args) ==
    IF IsExistsQuery(sql)
    THEN Only({IF r.err THEN r ELSE [err |-> FALSE, rows |-> <<[_exists |-> r.rows # <<>>]>>] :
                 r \in {Select(rows, SubSeq(sql, 4, Len(sql) - 3), args)}})
    ELSE Select(rows, sql, args)

(* The executor is an interface.  One that is not MySQL is a stub: it      *)
(* answers every statement alike, with an error or with the rows it holds, *)
(* or (table) it holds table users and answers as MySQL does, except that  *)
(* it reads a select-list entry the builder quoted as the aggregate the    *)
(* entry spells.                                                           *)
NoStub == [on |-> FALSE, err |-> FALSE, rows |-> <<>>, table |-> FALSE]

Unquoted(sql) ==
    LET list  == Section(sql, "SELECT")
        inner == SubSeq(list, 2, Len(list) - 1)
    IN  IF /\ Len(list) >= 3
           /\ list[1][1] = QuoteChar
           /\ list[Len(list)][1] = QuoteChar
           /\ SelectListKind(inner) \notin {"rows", "unknown column"}
        THEN <<T("SELECT")>> \o inner \o SubSeq(sql, Len(list) + 2, Len(sql))
        ELSE sql

Execute(d, q) ==
    IF d.stub.on
    THEN IF d.stub.table THEN Query(d.rows, Unquoted(q.sql), q.args)
         ELSE [err |-> d.stub.err, rows |-> d.stub.rows]
    ELSE Query(d.rows, q.sql, q.args)

Logged(d, method, q) ==
    [d EXCEPT !.log = Append(@, [method |-> method, sql |-> q.sql, args |-> q.args])]

(* Logger.LogQuery as the builders call it: nothing without a logger *)
LogQuery(d, logger, q, err) ==
    IF logger THEN [d EXCEPT !.logq = Append(@, [sql |-> q.sql, args |-> q.args, err |-> err])]
    ELSE d

(* sqlx GetContext: the first row of the answer, sql.ErrNoRows without one. *)
(* err names the error: "" for nil.                                         *)
GetContext(d, q) ==
    Only({[err |-> r.err \/ r.rows = <<>>,
           error |-> IF r.err THEN "exec" ELSE IF r.rows = <<>> THEN "norows" ELSE "",
           rows |-> r.rows, db |-> Logged(d, "GetContext", q)] :
            r \in {Execute(d, q)}})

QueryxContext(d, q) ==
    Only({[err |-> r.err, error |-> IF r.err THEN "exec" ELSE "",
           rows |-> r.rows, db |-> Logged(d, "QueryxContext", q)] :
            r \in {Execute(d, q)}})
-----------------------------------------------------------------------------
(* Select builder: execution.  A method returns the heaps, the builder and *)
(* the database as the call leaves them, and what the call returns.        *)

Ret(strs_, anys_, b, d, res) == [strs |-> strs_, anys |-> anys_, b |-> b, db |-> d, res |-> res]

(* In a result, err tells whether the error returned is non-nil and error  *)
(* names it: "exec" from the database, "norows" for sql.ErrNoRows,         *)
(* "missing" for a column absent from the scanned row, "" for nil.         *)

Rows(M, s, d) ==
    Only({Only({Ret(M.strs, M.anys, s, LogQuery(r.db, s.logger, q, r.error),
                    [err |-> r.err, error |-> r.error, data |-> r.rows]) :
            r \in {QueryxContext(d, q)}}) :
            q \in {buildSQL(M, s)}})

One(M, s, d) ==
    Only({Only({Ret(M.strs, M.anys, s, LogQuery(r.db, s.logger, q, r.error),
                    [err |-> r.err, error |-> r.error,
                     dest |-> IF r.err THEN <<>> ELSE r.rows[1]]) :
            r \in {GetContext(d, q)}}) :
            q \in {buildSQL(M, s)}})

Row(M, s, d) ==
    Only({Only({IF r.err
                THEN Ret(M.strs, M.anys, s, LogQuery(r.db, s.logger, q, r.error),
                         [err |-> TRUE, error |-> r.error, row |-> <<>>])
                ELSE IF r.rows # <<>>
                THEN Ret(M.strs, M.anys, s, LogQuery(r.db, s.logger, q, ""),
                         [err |-> FALSE, error |-> "", row |-> r.rows[1]])
                ELSE Ret(M.strs, M.anys, s, LogQuery(r.db, s.logger, q, "norows"),
                         [err |-> TRUE, error |-> "norows", row |-> <<>>]) :
            r \in {QueryxContext(d, q)}}) :
            q \in {buildSQL(M, s)}})

(* row[column] of a scanned row, whose keys are the labels of the result   *)
HasKey(row, column) == \E f \in DOMAIN row : <<T(f)>> = column

Get(row, column) == row[CHOOSE f \in DOMAIN row : <<T(f)>> = column]

(* RowsMapKey calls no logger. *)
RowsMapKey(M, s, d, keyColumn) ==
    Only({Only({IF r.err
                THEN Ret(M.strs, M.anys, s, r.db, [err |-> TRUE, error |-> r.error, data |-> <<>>])
                ELSE IF \E k \in DOMAIN r.rows : ~HasKey(r.rows[k], keyColumn)
                THEN Ret(M.strs, M.anys, s, r.db, [err |-> TRUE, error |-> "missing", data |-> <<>>])
                ELSE Ret(M.strs, M.anys, s, r.db,
                         [err |-> FALSE, error |-> "",
                          data |-> [key \in {Get(r.rows[k], keyColumn) : k \in DOMAIN r.rows} |->
                                      r.rows[CHOOSE k \in DOMAIN r.rows :
                                               /\ Get(r.rows[k], keyColumn) = key
                                               /\ \A j \in DOMAIN r.rows :
                                                     Get(r.rows[j], keyColumn) = key => j <= k]]]) :
            r \in {QueryxContext(d, q)}}) :
            q \in {buildSQL(M, s)}})

(* A faulty deferred function: it leaves s.columns as the method set them.  *)
restoreColumns_Skipped(b, originalColumns) == b

(* defer func() { s.columns = originalColumns }() *)
restoreColumns(b, originalColumns) == [b EXCEPT !.columns = originalColumns]

(* s.columns = []string{column} *)
withColumns(M, s, column) ==
    Only({[M_ |-> [M EXCEPT !.strs = lit.m], s_ |-> [s EXCEPT !.columns = lit.sl]] :
            lit \in {SliceLit(M.strs, <<column>>, Fresh(M.strs, M.id, "columns"))}})

Field(M, s, d, column) ==
    Only({Only({Ret(r.strs, r.anys, restoreColumns(r.b, s.columns), r.db,
                    IF r.res.err THEN [err |-> TRUE, error |-> r.res.error, value |-> NilPtr]
                    ELSE IF ~HasKey(r.res.row, column)
                    THEN [err |-> TRUE, error |-> "missing", value |-> NilPtr]
                    ELSE [err |-> FALSE, error |-> "", value |-> Ptr(Get(r.res.row, column))]) :
            r \in {Row(w.M_, w.s_, d)}}) :
            w \in {withColumns(M, s, column)}})

Pluck(M, s, d, column) ==
    Only({Only({Ret(r.strs, r.anys, restoreColumns(r.b, s.columns), r.db,
                    IF r.res.err THEN [err |-> TRUE, error |-> r.res.error, values |-> <<>>]
                    ELSE IF \E k \in DOMAIN r.res.data : ~HasKey(r.res.data[k], column)
                    THEN [err |-> TRUE, error |-> "missing", values |-> <<>>]
                    ELSE [err |-> FALSE, error |-> "",
                          values |-> [k \in DOMAIN r.res.data |-> Get(r.res.data[k], column)]]) :
            r \in {Rows(w.M_, w.s_, d)}}) :
            w \in {withColumns(M, s, column)}})

(* fmt.Sprintf("FN(%s) as alias", column) *)
Aggregate(fn, column, alias) == Txt(<<fn, "(">>) \o column \o Txt(<<")", "as", alias>>)

(* CountColumn puts the aggregate in s.columns, runs One and restores the  *)
(* columns on return; the destination is a struct with field db:"count".   *)
CountColumn(M, s, d, column) ==
    Only({Only({Ret(r.strs, r.anys, restoreColumns(r.b, s.columns), r.db,
                    [err |-> r.res.err, error |-> r.res.error,
                     count |-> IF r.res.err THEN 0 ELSE r.res.dest.count]) :
            r \in {One(w.M_, w.s_, d)}}) :
            w \in {withColumns(M, s, Aggregate("COUNT", column, "count"))}})

Count(M, s, d) == CountColumn(M, s, d, <<T("*")>>)

(* A faulty Sum: NULL is reported as sql.ErrNoRows.                         *)
Sum_NullIsError(M, s, d, column) ==
    Only({Only({Ret(r.strs, r.anys, restoreColumns(r.b, s.columns), r.db,
                    IF r.res.err THEN [err |-> TRUE, error |-> r.res.error, value |-> 0]
                    ELSE IF r.res.dest.sum.nil THEN [err |-> TRUE, error |-> "norows", value |-> 0]
                    ELSE [err |-> FALSE, error |-> "", value |-> r.res.dest.sum.val]) :
            r \in {One(w.M_, w.s_, d)}}) :
            w \in {withColumns(M, s, Aggregate("SUM", column, "sum"))}})

(* Sum and Avg scan into a *float64: nil for NULL, answered with 0. *)
Sum(M, s, d, column) ==
    Only({Only({Ret(r.strs, r.anys, restoreColumns(r.b, s.columns), r.db,
                    IF r.res.err THEN [err |-> TRUE, error |-> r.res.error, value |-> 0]
                    ELSE IF r.res.dest.sum.nil THEN [err |-> FALSE, error |-> "", value |-> 0]
                    ELSE [err |-> FALSE, error |-> "", value |-> r.res.dest.sum.val]) :
            r \in {One(w.M_, w.s_, d)}}) :
            w \in {withColumns(M, s, Aggregate("SUM", column, "sum"))}})

Avg(M, s, d, column) ==
    Only({Only({Ret(r.strs, r.anys, restoreColumns(r.b, s.columns), r.db,
                    IF r.res.err THEN [err |-> TRUE, error |-> r.res.error, value |-> 0]
                    ELSE IF r.res.dest.avg.nil THEN [err |-> FALSE, error |-> "", value |-> 0]
                    ELSE [err |-> FALSE, error |-> "", value |-> r.res.dest.avg.val]) :
            r \in {One(w.M_, w.s_, d)}}) :
            w \in {withColumns(M, s, Aggregate("AVG", column, "avg"))}})

Max(M, s, d, column) ==
    Only({Only({Ret(r.strs, r.anys, restoreColumns(r.b, s.columns), r.db,
                    IF r.res.err THEN [err |-> TRUE, error |-> r.res.error, value |-> NilPtr]
                    ELSE [err |-> FALSE, error |-> "", value |-> r.res.dest.max]) :
            r \in {One(w.M_, w.s_, d)}}) :
            w \in {withColumns(M, s, Aggregate("MAX", column, "max"))}})

Min(M, s, d, column) ==
    Only({Only({Ret(r.strs, r.anys, restoreColumns(r.b, s.columns), r.db,
                    IF r.res.err THEN [err |-> TRUE, error |-> r.res.error, value |-> NilPtr]
                    ELSE [err |-> FALSE, error |-> "", value |-> r.res.dest.min]) :
            r \in {One(w.M_, w.s_, d)}}) :
            w \in {withColumns(M, s, Aggregate("MIN", column, "min"))}})

(* Exists limits the statement to one row, wraps it in SELECT EXISTS(...)  *)
(* and restores the limit on return.                                       *)
Exists(M, s, d) ==
    Only({Only({Only({Ret(M.strs, M.anys, [one EXCEPT !.limit = s.limit],
                          LogQuery(r.db, s.logger, q, r.error),
                          [err |-> r.err, error |-> r.error,
                           value |-> IF r.err THEN FALSE ELSE r.rows[1]._exists]) :
            r \in {GetContext(d, q)}}) :
            q \in {Only({[sql |-> ExistsOpen \o inner.sql \o ExistsClose, args |-> inner.args] :
                           inner \in {buildSQL(M, one)}})}}) :
            one \in {[s EXCEPT !.limit = Ptr(1)]}})

-----------------------------------------------------------------------------
(* Select builder: pagination *)

Paginate(M, s, d, page, perPage) ==
    LET offset == (page - 1) * perPage
        Result(cnt, rows) ==
            LET count    == cnt.res.count
                lastPage == (count + perPage - 1) \div perPage
                data     == rows.res.data
            IN  IF rows.res.err
                THEN Ret(rows.strs, rows.anys, rows.b, rows.db, [err |-> TRUE])
                ELSE Ret(rows.strs, rows.anys, rows.b, rows.db,
                         [err |-> FALSE, Data |-> data, Total |-> count, PerPage |-> perPage,
                          CurrentPage |-> page, LastPage |-> lastPage,
                          From |-> IF count > 0 THEN offset + 1 ELSE 0,
                          To |-> IF count > 0 THEN offset + Len(data) ELSE 0])
        Page_(cnt) ==
            Only({Only({Only({Result(cnt, rows) :
                rows \in {Rows([M EXCEPT !.strs = off.strs, !.anys = off.anys], off.b, cnt.db)}}) :
                off \in {Offset([M EXCEPT !.strs = lim.strs, !.anys = lim.anys], lim.b, offset)}}) :
                lim \in {Limit([M EXCEPT !.strs = cnt.strs, !.anys = cnt.anys], s, perPage)}})
    IN  Only({Only({IF cnt.res.err THEN Ret(cnt.strs, cnt.anys, s, cnt.db, [err |-> TRUE])
                    ELSE Page_(cnt) :
            cnt \in {Count([strs |-> cl.strs, anys |-> cl.anys, id |-> "n"], cl.b, d)}}) :
            cl \in {Clone(M, s, "n")}})

(* row[column] of a scanned row: nil when the row has no such key *)
Lookup(row, column) == IF column = ColId THEN Ptr(row.id) ELSE NilPtr

(* A faulty KeysetPaginate: it asks for perPage rows, not for one more.     *)
KeysetPaginate_NoExtraRow(M, s, d, column, lastValue, perPage, direction) ==
    LET dir == IF direction # "asc" /\ direction # "desc" THEN "asc" ELSE direction
        Result(rows) ==
            LET hasMore == Len(rows.res.data) > perPage
                data    == IF hasMore THEN SubSeq(rows.res.data, 1, perPage) ELSE rows.res.data
            IN  IF rows.res.err THEN Ret(rows.strs, rows.anys, rows.b, rows.db, [err |-> TRUE])
                ELSE Ret(rows.strs, rows.anys, rows.b, rows.db,
                         [err |-> FALSE, Data |-> data, HasMore |-> hasMore,
                          NextCursor |-> IF Len(data) > 0 /\ hasMore
                                         THEN Lookup(data[Len(data)], column) ELSE NilPtr,
                          PrevCursor |-> IF Len(data) > 0 THEN Lookup(data[1], column)
                                         ELSE NilPtr])
    IN  Only({Only({Only({Only({Result(rows) :
            rows \in {Rows([M EXCEPT !.strs = lim.strs, !.anys = lim.anys], lim.b, d)}}) :
            lim \in {Limit([M EXCEPT !.strs = o.strs, !.anys = o.anys], o.b, perPage)}}) :
            o \in {IF dir = "asc"
                   THEN OrderBy([M EXCEPT !.strs = w.strs, !.anys = w.anys], w.b, column)
                   ELSE OrderByDesc([M EXCEPT !.strs = w.strs, !.anys = w.anys], w.b, column)}}) :
            w \in {IF lastValue.nil THEN Res(M.strs, M.anys, s)
                   ELSE IF dir = "asc" THEN Where(M, s, column, <<T(">")>>, lastValue.val)
                   ELSE Where(M, s, column, <<T("<")>>, lastValue.val)}})

(* A faulty KeysetPaginate: NextCursor is taken from the row that is dropped. *)
KeysetPaginate_CursorOfExtraRow(M, s, d, column, lastValue, perPage, direction) ==
    LET dir == IF direction # "asc" /\ direction # "desc" THEN "asc" ELSE direction
        Result(rows) ==
            LET hasMore == Len(rows.res.data) > perPage
                data    == IF hasMore THEN SubSeq(rows.res.data, 1, perPage) ELSE rows.res.data
            IN  IF rows.res.err THEN Ret(rows.strs, rows.anys, rows.b, rows.db, [err |-> TRUE])
                ELSE Ret(rows.strs, rows.anys, rows.b, rows.db,
                         [err |-> FALSE, Data |-> data, HasMore |-> hasMore,
                          NextCursor |-> IF Len(data) > 0 /\ hasMore
                                         THEN Lookup(rows.res.data[Len(rows.res.data)], column) ELSE NilPtr,
                          PrevCursor |-> IF Len(data) > 0 THEN Lookup(data[1], column)
                                         ELSE NilPtr])
    IN  Only({Only({Only({Only({Result(rows) :
            rows \in {Rows([M EXCEPT !.strs = lim.strs, !.anys = lim.anys], lim.b, d)}}) :
            lim \in {Limit([M EXCEPT !.strs = o.strs, !.anys = o.anys], o.b, perPage + 1)}}) :
            o \in {IF dir = "asc"
                   THEN OrderBy([M EXCEPT !.strs = w.strs, !.anys = w.anys], w.b, column)
                   ELSE OrderByDesc([M EXCEPT !.strs = w.strs, !.anys = w.anys], w.b, column)}}) :
            w \in {IF lastValue.nil THEN Res(M.strs, M.anys, s)
                   ELSE IF dir = "asc" THEN Where(M, s, column, <<T(">")>>, lastValue.val)
                   ELSE Where(M, s, column, <<T("<")>>, lastValue.val)}})

KeysetPaginate(M, s, d, column, lastValue, perPage, direction) ==
    LET dir == IF direction # "asc" /\ direction # "desc" THEN "asc" ELSE direction
        Result(rows) ==
            LET hasMore == Len(rows.res.data) > perPage
                data    == IF hasMore THEN SubSeq(rows.res.data, 1, perPage) ELSE rows.res.data
            IN  IF rows.res.err THEN Ret(rows.strs, rows.anys, rows.b, rows.db, [err |-> TRUE])
                ELSE Ret(rows.strs, rows.anys, rows.b, rows.db,
                         [err |-> FALSE, Data |-> data, HasMore |-> hasMore,
                          NextCursor |-> IF Len(data) > 0 /\ hasMore
                                         THEN Lookup(data[Len(data)], column) ELSE NilPtr,
                          PrevCursor |-> IF Len(data) > 0 THEN Lookup(data[1], column)
                                         ELSE NilPtr])
    IN  Only({Only({Only({Only({Result(rows) :
            rows \in {Rows([M EXCEPT !.strs = lim.strs, !.anys = lim.anys], lim.b, d)}}) :
            lim \in {Limit([M EXCEPT !.strs = o.strs, !.anys = o.anys], o.b, perPage + 1)}}) :
            o \in {IF dir = "asc"
                   THEN OrderBy([M EXCEPT !.strs = w.strs, !.anys = w.anys], w.b, column)
                   ELSE OrderByDesc([M EXCEPT !.strs = w.strs, !.anys = w.anys], w.b, column)}}) :
            w \in {IF lastValue.nil THEN Res(M.strs, M.anys, s)
                   ELSE IF dir = "asc" THEN Where(M, s, column, <<T(">")>>, lastValue.val)
                   ELSE Where(M, s, column, <<T("<")>>, lastValue.val)}})

-----------------------------------------------------------------------------
(* The state machine: calls on the select builders *)

Roots == {"s", "c"}

GroupId(depth) == "g" \o ToString(depth)

CurB(i) == IF stk = <<>> THEN sel[i] ELSE Head(stk).b

CurId(i) == IF stk = <<>> THEN i ELSE Head(stk).id

Mach(i) == [strs |-> strs, anys |-> anys, id |-> CurId(i)]

(* How many calls the caller makes in each scenario *)
CloneKinds == {"insert.clone", "update.clone", "delete.clone"}

Budget ==
    CASE kind = "clone" -> MaxCloneOps
      [] kind \in CloneKinds -> MaxCloneOps
      [] kind = "group" -> MaxGroupOps
      [] kind = "clauses" -> 5 * MaxClauseCalls + 4
      [] kind = "conflict" -> MaxUpsertOps
      [] OTHER -> MaxOps

SelectKinds == {"select", "clone", "clauses", "paginate", "terminal", "when", "join", "pages", "group", "batches"}

Callable(i) ==
    /\ kind \in SelectKinds
    /\ nops < Budget
    /\ IF stk = <<>> THEN i = "s" \/ cloned ELSE i = Head(stk).root

SliceFieldsS == {"columns", "joins", "wheres", "orders", "groups", "havings"}

SliceFieldsA == {"whereArgs", "havingArgs"}

Live(fields, selx, stkx) ==
    UNION {{selx[i][f].arr : f \in fields} : i \in Roots}
    \cup UNION {{stkx[k].b[f].arr : f \in fields} : k \in DOMAIN stkx}

(* The history entry of a predicate call: whether it was an or-variant and *)
(* the condition it added, without the connective marker the builder       *)
(* stores in front of it.                                                  *)
LastFragment(R) == Elems(R.strs, R.b.wheres)[R.b.wheres.len]

Entry(or, R, args) ==
    <<[cl |-> "where", or |-> or,
       body |-> IF or THEN Tail(LastFragment(R)) ELSE LastFragment(R),
       args |-> args]>>

Commit(i, R, g, name) ==
    /\ IF stk = <<>>
       THEN /\ sel' = [sel EXCEPT ![i] = R.b]
            /\ gh' = [gh EXCEPT ![i] = @ \o g]
            /\ stk' = stk
       ELSE /\ stk' = <<[Head(stk) EXCEPT !.b = R.b, !.gh = @ \o g]>> \o Tail(stk)
            /\ UNCHANGED <<sel, gh>>
    /\ strs' = Restrict(R.strs, Live(SliceFieldsS, sel', stk'))
    /\ anys' = Restrict(R.anys, Live(SliceFieldsA, sel', stk'))
    /\ nops' = nops + 1
    /\ last' = [op |-> name, on |-> i]
    /\ UNCHANGED <<cloned, out, kind, del, ins, upd, ups, db, pag, trav, clones>>

CallWhere(i) ==
    /\ Callable(i)
    /\ \E v \in Vals :
          LET R == Where(Mach(i), CurB(i), ColId, OpGt, v)
          IN  Commit(i, R, Entry(FALSE, R, <<v>>), "Where")

CallWhereEq(i) ==
    /\ Callable(i)
    /\ LET R == WhereEq(Mach(i), CurB(i), ColAge, 1)
       IN  Commit(i, R, Entry(FALSE, R, <<1>>), "WhereEq")

CallOrWhere(i) ==
    /\ Callable(i)
    /\ \E v \in Vals :
          LET R == OrWhere(Mach(i), CurB(i), ColAge, OpLt, v)
          IN  Commit(i, R, Entry(TRUE, R, <<v>>), "OrWhere")

CallWhereIn(i) ==
    /\ Callable(i)
    /\ \E vs \in ValLists :
          LET R == WhereIn(Mach(i), CurB(i), ColId, vs)
          IN  Commit(i, R, Entry(FALSE, R, vs), "WhereIn")

CallWhereNotIn(i) ==
    /\ Callable(i)
    /\ LET R == WhereNotIn(Mach(i), CurB(i), ColAge, <<1, 2>>)
       IN  Commit(i, R, Entry(FALSE, R, <<1, 2>>), "WhereNotIn")

CallOrWhereIn(i) ==
    /\ Callable(i)
    /\ LET R == OrWhereIn(Mach(i), CurB(i), ColAge, <<1>>)
       IN  Commit(i, R, Entry(TRUE, R, <<1>>), "OrWhereIn")

CallWhereBetween(i) ==
    /\ Callable(i)
    /\ LET R == WhereBetween(Mach(i), CurB(i), ColId, 2, 1)
       IN  Commit(i, R, Entry(FALSE, R, <<2, 1>>), "WhereBetween")

CallWhereNull(i) ==
    /\ Callable(i)
    /\ LET R == WhereNull(Mach(i), CurB(i), ColAge)
       IN  Commit(i, R, Entry(FALSE, R, <<>>), "WhereNull")

CallWhereRaw(i) ==
    /\ Callable(i)
    /\ \E raw \in {RawCond(1), RawParen} :
          LET R == WhereRaw(Mach(i), CurB(i), raw.cond, raw.args)
          IN  Commit(i, R, Entry(FALSE, R, raw.args), "WhereRaw")

CallOrWhereRaw(i) ==
    /\ Callable(i)
    /\ LET R == OrWhereRaw(Mach(i), CurB(i), RawCond(2).cond, RawCond(2).args)
       IN  Commit(i, R, Entry(TRUE, R, RawCond(2).args), "OrWhereRaw")

CallWhereExists(i) ==
    /\ Callable(i)
    /\ LET R == WhereExists(Mach(i), CurB(i), Subquery.sql, Subquery.args)
       IN  Commit(i, R, Entry(FALSE, R, Subquery.args), "WhereExists")

(* WhereGroup(fn) and OrWhereGroup(fn): the call creates groupBuilder and   *)
(* runs fn on it (EnterGroup); the calls fn makes are the calls above, on  *)
(* the innermost open group; when fn returns the group is merged into the  *)
(* builder that received the call (ReturnGroup); last then also keeps the  *)
(* builder fn returned.                                                    *)

EnterGroup(i) ==
    /\ Callable(i)
    /\ Len(stk) < MaxDepth
    /\ \E k \in {"WhereGroup", "OrWhereGroup"} :
          stk' = <<[kind |-> k, root |-> i, id |-> GroupId(Len(stk) + 1),
                    b |-> groupBuilder, gh |-> <<>>]>> \o stk
    /\ nops' = nops + 1
    /\ last' = [op |-> "fn", on |-> i]
    /\ UNCHANGED <<strs, anys, sel, cloned, gh, out, kind, del, ins, upd, ups, db, pag, trav, clones>>

ReturnGroup(i) ==
    /\ stk # <<>>
    /\ i = Head(stk).root
    /\ LET f      == Head(stk)
           wh     == SelectSeq(f.gh, LAMBDA e : e.cl = "where")
           outer  == IF Tail(stk) = <<>> THEN sel[i] ELSE Head(Tail(stk)).b
           oid    == IF Tail(stk) = <<>> THEN i ELSE Head(Tail(stk)).id
           M      == [strs |-> strs, anys |-> anys, id |-> oid]
           R      == IF f.kind = "WhereGroup" THEN WhereGroup(M, outer, f.b)
                     ELSE OrWhereGroup(M, outer, f.b)
           g      == IF R.b.wheres.len > outer.wheres.len
                     THEN <<[cl |-> "where", or |-> f.kind = "OrWhereGroup",
                             body |-> IF outer.wheres.len > 0 THEN Tail(LastFragment(R))
                                      ELSE LastFragment(R),
                             args |-> Flatten([k \in DOMAIN wh |-> wh[k].args])]>>
                     ELSE <<>>
       IN  /\ IF Tail(stk) = <<>>
              THEN /\ sel' = [sel EXCEPT ![i] = R.b]
                   /\ gh' = [gh EXCEPT ![i] = @ \o g]
                   /\ stk' = <<>>
              ELSE /\ stk' = <<[Head(Tail(stk)) EXCEPT !.b = R.b, !.gh = @ \o g]>>
                              \o Tail(Tail(stk))
                   /\ UNCHANGED <<sel, gh>>
           /\ strs' = Restrict(R.strs, Live(SliceFieldsS, sel', stk'))
           /\ anys' = Restrict(R.anys, Live(SliceFieldsA, sel', stk'))
    /\ last' = [op |-> Head(stk).kind, on |-> i, builder |-> Head(stk).b]
    /\ UNCHANGED <<nops, cloned, out, kind, del, ins, upd, ups, db, pag, trav, clones>>

(* Calls that build the other clauses *)

CallFrom(i) ==
    /\ Callable(i)
    /\ Commit(i, From(Mach(i), CurB(i), UsersTable), <<>>, "From")

(* The join conditions tried: a dotted name on both sides; in scenario     *)
(* "join" also bare names and connectives in several letter cases.         *)
JoinConditions ==
    IF kind = "join"
    THEN {Txt(<<"user_id", "=", "id">>),
          Txt(<<"o", ".", "user_id", "=", "users", ".", "id">>),
          Txt(<<"x", "=", "y", "And", "z", "=", "w">>),
          Txt(<<"x", "=", "y", "or", "on", "=", "w">>)}
    ELSE {Txt(<<"orders", ".", "user_id", "=", "users", ".", "id">>)}

JoinEntry(condition) ==
    IF kind = "join"
    THEN <<[cl |-> "join", or |-> FALSE, body |-> condition, args |-> <<>>]>>
    ELSE <<>>

CallJoin(i) ==
    /\ Callable(i)
    /\ \E condition \in JoinConditions :
          Commit(i, Join(Mach(i), CurB(i), <<T("orders")>>, condition),
                 JoinEntry(condition), "Join")

CallLeftJoin(i) ==
    /\ Callable(i)
    /\ \E condition \in JoinConditions :
          Commit(i, LeftJoin(Mach(i), CurB(i), Txt(<<"orders", "o">>), condition),
                 JoinEntry(condition), "LeftJoin")

CallGroupBy(i) ==
    /\ Callable(i)
    /\ Commit(i, GroupBy(Mach(i), CurB(i), <<ColAge>>), <<>>, "GroupBy")

CallHaving(i) ==
    /\ Callable(i)
    /\ LET cond == <<T("COUNT(*)"), T(">"), Ph(2)>>
       IN  Commit(i, Having(Mach(i), CurB(i), cond, <<2>>),
                  <<[cl |-> "having", or |-> FALSE, body |-> cond, args |-> <<2>>]>>,
                  "Having")

CallOrderBy(i) ==
    /\ Callable(i)
    /\ Commit(i, OrderBy(Mach(i), CurB(i), ColId), <<>>, "OrderBy")

CallOrderByDesc(i) ==
    /\ Callable(i)
    /\ Commit(i, OrderByDesc(Mach(i), CurB(i), ColAge), <<>>, "OrderByDesc")

CallLimit(i) ==
    /\ Callable(i)
    /\ Commit(i, Limit(Mach(i), CurB(i), MaxPerPage), <<>>, "Limit")

CallOffset(i) ==
    /\ Callable(i)
    /\ Commit(i, Offset(Mach(i), CurB(i), MaxPerPage), <<>>, "Offset")

CallPage(i) ==
    /\ Callable(i)
    /\ \E p \in 1..MaxPage : Commit(i, Page(Mach(i), CurB(i), p, MaxPerPage), <<>>, "Page")

CallSetColumns(i) ==
    /\ Callable(i)
    /\ Commit(i, SetColumns(Mach(i), CurB(i), <<ColId, ColAge>>), <<>>, "SetColumns")

CallClone ==
    /\ kind = "clone"
    /\ stk = <<>>
    /\ ~cloned
    /\ LET R == Clone([strs |-> strs, anys |-> anys, id |-> "s"], sel["s"], "c")
       IN  /\ sel' = [sel EXCEPT !["c"] = R.b]
           /\ strs' = R.strs
           /\ anys' = R.anys
           /\ gh' = [gh EXCEPT !["c"] = gh["s"]]
    /\ cloned' = TRUE
    /\ last' = [op |-> "Clone", on |-> "s"]
    /\ UNCHANGED <<stk, nops, out, kind, del, ins, upd, ups, db, pag, trav, clones>>

(* A faulty ToSQL: the connective of the first fragment is trimmed in the   *)
(* builder instead of in the rendered text.                                *)
CallToSQL_TrimsInPlace(i) ==
    /\ kind = "select"
    /\ stk = <<>>
    /\ i = "s" \/ cloned
    /\ out' = ToSQL([strs |-> strs, anys |-> anys, id |-> i], sel[i])
    /\ strs' = IF sel[i].wheres.len = 0 THEN strs
               ELSE [strs EXCEPT ![sel[i].wheres.arr][1] =
                        TrimPrefixTok(TrimPrefixTok(@, "AND"), "OR")]
    /\ last' = [op |-> "ToSQL", on |-> i]
    /\ UNCHANGED <<anys, sel, cloned, stk, gh, nops, kind, del, ins, upd, ups,
                   db, pag, trav, clones>>

CallToSQL(i) ==
    /\ kind = "select"
    /\ stk = <<>>
    /\ i = "s" \/ cloned
    /\ out' = ToSQL([strs |-> strs, anys |-> anys, id |-> i], sel[i])
    /\ last' = [op |-> "ToSQL", on |-> i]
    /\ UNCHANGED <<strs, anys, sel, cloned, stk, gh, nops, kind, del, ins, upd, ups,
                   db, pag, trav, clones>>


(* When and WhenFunc.  The callback fn of WhenFunc is the sequence of      *)
(* predicate calls it makes on the builder it is handed, which is the      *)
(* receiver itself; it returns that builder.                               *)

When(M, s, condition, column, operator, value) ==
    IF condition THEN Where(M, s, column, operator, value) ELSE Res(M.strs, M.anys, s)

OrVariants == {"OrWhere", "OrWhereRaw"}

FnCall(M, s, c) ==
    CASE c.op = "Where" -> Where(M, s, ColId, OpGt, c.v)
      [] c.op = "OrWhere" -> OrWhere(M, s, ColAge, OpLt, c.v)
      [] c.op = "WhereRaw" ->
            IF c.paren THEN WhereRaw(M, s, RawParen.cond, RawParen.args)
            ELSE WhereRaw(M, s, RawCond(c.v).cond, RawCond(c.v).args)
      [] c.op = "OrWhereRaw" -> OrWhereRaw(M, s, RawCond(c.v).cond, RawCond(c.v).args)

RECURSIVE Fn(_, _, _)
Fn(M, s, calls) ==
    IF calls = <<>> THEN Res(M.strs, M.anys, s)
    ELSE LET R == FnCall(M, s, Head(calls))
         IN  Fn([strs |-> R.strs, anys |-> R.anys, id |-> M.id], R.b, Tail(calls))

(* A faulty WhenFunc: the first new fragment gets AND in front of it even  *)
(* when it brings its own connective.                                      *)
WhenFunc_AlwaysAnd(M, s, condition, fn) ==
    IF condition
    THEN LET n == s.wheres.len
             R == Fn(M, s, fn)
         IN  IF R.b.wheres.len > n /\ n > 0
             THEN Res([R.strs EXCEPT ![R.b.wheres.arr][n + 1] = <<T("AND")>> \o @],
                      R.anys, R.b)
             ELSE R
    ELSE Res(M.strs, M.anys, s)

WhenFunc(M, s, condition, fn) ==
    IF condition
    THEN LET n == s.wheres.len
             R == Fn(M, s, fn)
         IN  IF R.b.wheres.len > n /\ n > 0
                /\ ~HasPrefixTok(R.strs[R.b.wheres.arr][n + 1], "OR")
                /\ ~HasPrefixTok(R.strs[R.b.wheres.arr][n + 1], "AND")
             THEN Res([R.strs EXCEPT ![R.b.wheres.arr][n + 1] = <<T("AND")>> \o @],
                      R.anys, R.b)
             ELSE R
    ELSE Res(M.strs, M.anys, s)

(* The callbacks tried: up to MaxFnCalls predicate calls *)
MaxFnCalls == 2

FnCalls ==
    {[op |-> "Where", v |-> 1, paren |-> FALSE],
     [op |-> "OrWhere", v |-> 2, paren |-> FALSE],
     [op |-> "WhereRaw", v |-> 1, paren |-> FALSE],
     [op |-> "WhereRaw", v |-> 0, paren |-> TRUE],
     [op |-> "OrWhereRaw", v |-> 2, paren |-> FALSE]}

Fns == UNION {[1..n -> FnCalls] : n \in 0..MaxFnCalls}

(* What one call of a callback adds: the condition without connective, and *)
(* its arguments.                                                          *)
FnEntry(c) ==
    LET R == FnCall([strs |-> <<>>, anys |-> <<>>, id |-> "f"], groupBuilder, c)
    IN  Entry(c.op \in OrVariants, R, Elems(R.anys, R.b.whereArgs))

FnEntries(fn) == Flatten([k \in DOMAIN fn |-> FnEntry(fn[k])])

CommitWhen(i, R, g, l) ==
    /\ sel' = [sel EXCEPT ![i] = R.b]
    /\ gh' = [gh EXCEPT ![i] = @ \o g]
    /\ strs' = Restrict(R.strs, Live(SliceFieldsS, sel', stk))
    /\ anys' = Restrict(R.anys, Live(SliceFieldsA, sel', stk))
    /\ nops' = nops + 1
    /\ last' = l
    /\ UNCHANGED <<cloned, stk, out, kind, del, ins, upd, ups, db, pag, trav, clones>>

CallWhen(i) ==
    /\ Callable(i)
    /\ stk = <<>>
    /\ \E condition \in BOOLEAN, v \in Vals :
          \E R \in {When(Mach(i), sel[i], condition, ColId, OpEq, v)} :
              CommitWhen(i, R, IF condition THEN Entry(FALSE, R, <<v>>) ELSE <<>>,
                         [op |-> "When", on |-> i, condition |-> condition, fn |-> <<>>])

CallWhenFunc(i) ==
    /\ Callable(i)
    /\ stk = <<>>
    /\ \E condition \in BOOLEAN, fn \in Fns :
          \E R \in {WhenFunc(Mach(i), sel[i], condition, fn)} :
              CommitWhen(i, R, IF condition THEN FnEntries(fn) ELSE <<>>,
                         [op |-> "WhenFunc", on |-> i, condition |-> condition, fn |-> fn])
-----------------------------------------------------------------------------
(* Delete builder *)

NewDeleteBuilder(table) ==
    [table |-> table, joins |-> NilSlice, wheres |-> NilSlice, whereArgs |-> NilSlice,
     orders |-> NilSlice, limit |-> NilPtr]

deleteBuilder_AppendWhere(M, d, fragment, args) ==
    LET r1 == GoAppend(M.strs, d.wheres, <<fragment>>, <<>>, Fresh(M.strs, M.id, "wheres"))
        r2 == GoAppend(M.anys, d.whereArgs, args, 0, Fresh(M.anys, M.id, "whereArgs"))
    IN  Res(r1.m, r2.m, [d EXCEPT !.wheres = r1.sl, !.whereArgs = r2.sl])

deleteBuilder_Where(M, d, column, operator, value) ==
    deleteBuilder_AppendWhere(M, d,
        QuoteIdentifier(column) \o operator \o <<Ph(value)>>, <<value>>)

deleteBuilder_WhereEq(M, d, column, value) ==
    deleteBuilder_Where(M, d, column, <<T("=")>>, value)

deleteBuilder_WhereIn(M, d, column, values) ==
    deleteBuilder_AppendWhere(M, d,
        QuoteIdentifier(column) \o Txt(<<"IN", "(">>)
            \o JoinSep(Placeholders(values), <<T(",")>>) \o <<T(")")>>,
        values)

deleteBuilder_WhereRaw(M, d, condition, args) ==
    deleteBuilder_AppendWhere(M, d, condition, args)

deleteBuilder_Limit(M, d, limit) == Res(M.strs, M.anys, [d EXCEPT !.limit = Ptr(limit)])

deleteBuilder_OrderBy(M, d, column) ==
    LET r == GoAppend(M.strs, d.orders, <<SelectOrderBy(column, FALSE)>>, <<>>,
                      Fresh(M.strs, M.id, "orders"))
    IN  Res(r.m, M.anys, [d EXCEPT !.orders = r.sl])

delWhereParts(wheres) ==
    [i \in DOMAIN wheres |->
        IF i = 1 THEN wheres[i]
        ELSE IF HasPrefixTok(wheres[i], "AND") \/ HasPrefixTok(wheres[i], "OR")
                \/ HasPrefixParen(wheres[i])
             THEN wheres[i]
             ELSE <<T("AND")>> \o wheres[i]]

delWhereClause(wheres) ==
    TrimPrefixTok(TrimPrefixTok(Flatten(delWhereParts(wheres)), "AND"), "OR")

deleteBuilder_buildSQL(M, d) ==
    LET wheres == Elems(M.strs, d.wheres)
    IN  [sql  |-> Txt(<<"DELETE", "FROM">>) \o QuoteIdentifier(d.table)
                  \o Flatten(Elems(M.strs, d.joins))
                  \o (IF Len(wheres) > 0 THEN <<T("WHERE")>> \o delWhereClause(wheres) ELSE <<>>)
                  \o Flatten(Elems(M.strs, d.orders))
                  \o (IF ~d.limit.nil THEN DeleteLimit(d.limit.val) ELSE <<>>),
         args |-> IF Len(wheres) > 0 THEN Elems(M.anys, d.whereArgs) ELSE <<>>]

deleteBuilder_ToSQL(M, d) == deleteBuilder_buildSQL(M, d)

DelMach == [strs |-> strs, anys |-> anys, id |-> "d"]

DelCommit(R, name) ==
    /\ kind = "delete"
    /\ nops < Budget
    /\ del' = R.b
    /\ strs' = Restrict(R.strs, {R.b[f].arr : f \in {"joins", "wheres", "orders"}})
    /\ anys' = Restrict(R.anys, {R.b.whereArgs.arr})
    /\ nops' = nops + 1
    /\ last' = [op |-> name, on |-> "d"]
    /\ UNCHANGED <<sel, cloned, stk, gh, out, kind, ins, upd, ups, db, pag, trav, clones>>

DelWhere ==
    \E v \in Vals : DelCommit(deleteBuilder_Where(DelMach, del, ColId, OpGt, v), "Where")

DelWhereEq == DelCommit(deleteBuilder_WhereEq(DelMach, del, ColAge, 1), "WhereEq")

DelWhereIn ==
    \E vs \in ValLists : DelCommit(deleteBuilder_WhereIn(DelMach, del, ColId, vs), "WhereIn")

DelWhereRaw ==
    \E raw \in {RawCond(1), RawParen, RawOr} :
        DelCommit(deleteBuilder_WhereRaw(DelMach, del, raw.cond, raw.args), "WhereRaw")

DelLimit == \E n \in 1..MaxPerPage : DelCommit(deleteBuilder_Limit(DelMach, del, n), "Limit")

DelOrderBy == DelCommit(deleteBuilder_OrderBy(DelMach, del, ColId), "OrderBy")

DelToSQL ==
    /\ kind = "delete"
    /\ out' = deleteBuilder_ToSQL(DelMach, del)
    /\ last' = [op |-> "ToSQL", on |-> "d"]
    /\ UNCHANGED <<strs, anys, sel, cloned, stk, gh, nops, kind, del, ins, upd, ups,
                   db, pag, trav, clones>>

-----------------------------------------------------------------------------
(* Insert, update and upsert builders.  Their slices are never shared      *)
(* between two builders in the calls made here, so a slice is its sequence *)
(* of elements.                                                            *)

InsertIgnore == Txt(<<"INSERT", "IGNORE">>)

Assignments(cols) ==
    [i \in DOMAIN cols |->
        QuoteIdentifier(cols[i]) \o Txt(<<"=", "VALUES", "(">>) \o QuoteIdentifier(cols[i])
            \o <<T(")")>>]

InsertOnConflict(columns, updateColumns, updateExcluded) ==
    IF Len(updateColumns) = 0 /\ Len(updateExcluded) = 0
    THEN Txt(<<"ON", "DUPLICATE", "KEY", "UPDATE">>)
    ELSE Txt(<<"ON", "DUPLICATE", "KEY", "UPDATE">>)
         \o JoinSep(Assignments(updateColumns) \o Assignments(updateExcluded), <<T(",")>>)

UpdateLimit(limit) == <<T("LIMIT"), Num(limit)>>

columnList(columns) ==
    IF Len(columns) > 0
    THEN <<T("(")>> \o JoinSep([j \in DOMAIN columns |-> QuoteIdentifier(columns[j])], <<T(",")>>)
         \o <<T(")")>>
    ELSE <<>>

valuesList(values) ==
    IF Len(values) > 0
    THEN <<T("VALUES")>>
         \o JoinSep([r \in DOMAIN values |->
                        <<T("(")>> \o JoinSep(Placeholders(values[r]), <<T(",")>>) \o <<T(")")>>],
                    <<T(",")>>)
    ELSE <<>>

NewInsertBuilder(table) ==
    [table |-> table, columns |-> <<>>, values |-> <<>>, onConflict |-> "",
     fromSelect |-> ""]

insertBuilder_Columns(b, columns) == [b EXCEPT !.columns = columns]

(* A value handed to Values is known by its shape, as reflection sees it:  *)
(* a scalar, nil, a struct whose fields carry the db tags in tags and the  *)
(* values in m, a map yielding its keys in the order tags, or a slice of   *)
(* elements of shape elem.  val stands for the value as an argument.       *)
Scalar(v) == [shape |-> "int", val |-> v]

NilValue == [shape |-> "nil", val |-> 0]

Struct(tags, m) == [shape |-> "struct", val |-> 0, tags |-> tags, m |-> m]

MapValue(keys, m) == [shape |-> "map", val |-> 0, tags |-> keys, m |-> m]

SliceOf(elem, elems, v) == [shape |-> "slice", val |-> v, elem |-> elem, elems |-> elems]

Raw(values) == [j \in DOMAIN values |-> values[j].val]

(* One row from a struct: the tagged fields when no columns are set, one   *)
(* value per column, nil (0) for a column no field is tagged with, after.  *)
insertBuilder_addStruct(b, v) ==
    IF Len(b.columns) = 0
    THEN [b EXCEPT !.columns = v.tags,
                   !.values = Append(@, [j \in DOMAIN v.tags |-> v.m[v.tags[j]]])]
    ELSE [b EXCEPT !.values =
             Append(@, [j \in DOMAIN b.columns |->
                           IF \E k \in DOMAIN v.tags : v.tags[k] = b.columns[j]
                           THEN v.m[b.columns[j]] ELSE 0])]

RECURSIVE insertBuilder_addStructs(_, _)
insertBuilder_addStructs(b, elems) ==
    IF elems = <<>> THEN b
    ELSE insertBuilder_addStructs(insertBuilder_addStruct(b, Head(elems)), Tail(elems))

(* Values(values...): the builder as the call leaves it, and whether the   *)
(* call panicked.  One value is looked at by shape, any other number of    *)
(* values is one row.                                                      *)
insertBuilder_Values(b, values) ==
    LET row == [b |-> [b EXCEPT !.values = Append(@, Raw(values))], panic |-> FALSE]
        val == values[1]
    IN  IF Len(values) = 1
        THEN CASE val.shape = "nil" -> row
               [] val.shape = "struct" -> [b |-> insertBuilder_addStruct(b, val), panic |-> FALSE]
               [] val.shape = "slice" ->
                    IF val.elem = "struct"
                    THEN [b |-> insertBuilder_addStructs(b, val.elems), panic |-> FALSE]
                    ELSE row
               [] OTHER -> [b |-> b, panic |-> TRUE]
        ELSE row

insertBuilder_Ignore(b) == [b EXCEPT !.onConflict = "IGNORE"]

insertBuilder_FromSelect(b, selectBuilder) == [b EXCEPT !.fromSelect = selectBuilder]

buildValuesSQL(b) ==
    [sql  |-> (IF b.onConflict = "IGNORE" THEN InsertIgnore ELSE Txt(<<"INSERT", "INTO">>))
              \o QuoteIdentifier(b.table) \o columnList(b.columns) \o valuesList(b.values)
              \o (IF b.onConflict = "UPDATE"
                  THEN InsertOnConflict(b.columns, b.columns, <<>>) ELSE <<>>),
     args |-> Flatten(b.values)]

buildFromSelectSQL(M, b, selects) ==
    LET q == ToSQL(M, selects[b.fromSelect])
    IN  [sql  |-> (IF b.onConflict = "IGNORE" THEN InsertIgnore ELSE Txt(<<"INSERT", "INTO">>))
                  \o QuoteIdentifier(b.table) \o columnList(b.columns) \o q.sql
                  \o (IF b.onConflict = "UPDATE"
                      THEN InsertOnConflict(b.columns, b.columns, <<>>) ELSE <<>>),
         args |-> q.args]

insertBuilder_buildSQL(M, b, selects) ==
    IF b.fromSelect # "" THEN buildFromSelectSQL(M, b, selects) ELSE buildValuesSQL(b)

NewUpdateBuilder(table) ==
    [table |-> table, sets |-> <<>>, setArgs |-> <<>>, joins |-> <<>>, wheres |-> <<>>,
     whereArgs |-> <<>>, limit |-> NilPtr]

updateBuilder_Set(b, column, value) ==
    [b EXCEPT !.sets = Append(@, QuoteIdentifier(column) \o <<T("="), Ph(value)>>),
              !.setArgs = Append(@, value)]

updateBuilder_Where(b, column, operator, value) ==
    [b EXCEPT !.wheres = Append(@, QuoteIdentifier(column) \o operator \o <<Ph(value)>>),
              !.whereArgs = Append(@, value)]

updateBuilder_WhereEq(b, column, value) == updateBuilder_Where(b, column, <<T("=")>>, value)

updateBuilder_WhereIn(b, column, values) ==
    [b EXCEPT !.wheres = Append(@, QuoteIdentifier(column) \o Txt(<<"IN", "(">>)
                                     \o JoinSep(Placeholders(values), <<T(",")>>) \o <<T(")")>>),
              !.whereArgs = @ \o values]

updateBuilder_WhereRaw(b, condition, args) ==
    [b EXCEPT !.wheres = Append(@, condition), !.whereArgs = @ \o args]

updateBuilder_buildSQL(b) ==
    [sql  |-> <<T("UPDATE")>> \o b.table \o Flatten(b.joins)
              \o (IF Len(b.sets) > 0 THEN <<T("SET")>> \o JoinSep(b.sets, <<T(",")>>) ELSE <<>>)
              \o (IF Len(b.wheres) > 0 THEN <<T("WHERE")>> \o Flatten(b.wheres) ELSE <<>>)
              \o (IF ~b.limit.nil THEN UpdateLimit(b.limit.val) ELSE <<>>),
     args |-> (IF Len(b.sets) > 0 THEN b.setArgs ELSE <<>>)
              \o (IF Len(b.wheres) > 0 THEN b.whereArgs ELSE <<>>)]

NewUpsertBuilder(table) ==
    [table |-> table, columns |-> <<>>, values |-> <<>>, conflictColumns |-> <<>>,
     updateColumns |-> <<>>, updateExcluded |-> <<>>, updateWhere |-> <<>>,
     updateWhereArgs |-> <<>>]

upsertBuilder_Columns(b, columns) == [b EXCEPT !.columns = columns]

(* Values(map): keys is the order in which the map yields its keys.  With  *)
(* no columns set the keys become the columns; otherwise one value per     *)
(* column, nil (0) for a column the map has no key for.                    *)
addMap(b, keys, m) ==
    IF Len(b.columns) = 0
    THEN [b EXCEPT !.columns = keys,
                   !.values = Append(@, [j \in DOMAIN keys |-> m[keys[j]]])]
    ELSE [b EXCEPT !.values =
             Append(@, [j \in DOMAIN b.columns |->
                           IF \E k \in DOMAIN keys : keys[k] = b.columns[j]
                           THEN m[b.columns[j]] ELSE 0])]

upsertBuilder_addStruct(b, v) ==
    IF Len(b.columns) = 0
    THEN [b EXCEPT !.columns = v.tags,
                   !.values = Append(@, [j \in DOMAIN v.tags |-> v.m[v.tags[j]]])]
    ELSE [b EXCEPT !.values =
             Append(@, [j \in DOMAIN b.columns |->
                           IF \E k \in DOMAIN v.tags : v.tags[k] = b.columns[j]
                           THEN v.m[b.columns[j]] ELSE 0])]

(* The elements of a slice: structs and maps add a row, any other element  *)
(* is passed over.                                                         *)
RECURSIVE upsertBuilder_addElems(_, _)
upsertBuilder_addElems(b, elems) ==
    IF elems = <<>> THEN b
    ELSE upsertBuilder_addElems(
             CASE Head(elems).shape = "struct" -> upsertBuilder_addStruct(b, Head(elems))
               [] Head(elems).shape = "map" -> addMap(b, Head(elems).tags, Head(elems).m)
               [] OTHER -> b,
             Tail(elems))

(* Values(data): no branch of it panics *)
upsertBuilder_Values(b, data) ==
    CASE data.shape = "nil" -> b
      [] data.shape = "struct" -> upsertBuilder_addStruct(b, data)
      [] data.shape = "map" -> addMap(b, data.tags, data.m)
      [] data.shape = "slice" -> upsertBuilder_addElems(b, data.elems)
      [] OTHER -> b

upsertBuilder_OnConflict(b, columns) == [b EXCEPT !.conflictColumns = columns]

upsertBuilder_DoUpdate(b, columns) == [b EXCEPT !.updateColumns = columns]

upsertBuilder_DoUpdateExcept(b, columns) == [b EXCEPT !.updateExcluded = columns]

upsertBuilder_DoNothing(b) == b

upsertBuilder_UpdateWhere(b, condition, args) ==
    [b EXCEPT !.updateWhere = condition, !.updateWhereArgs = args]

upsertBuilder_buildSQL(b) ==
    [sql  |-> Txt(<<"INSERT", "INTO">>) \o b.table \o columnList(b.columns)
              \o valuesList(b.values)
              \o (IF Len(b.updateColumns) > 0 \/ Len(b.updateExcluded) > 0
                  THEN InsertOnConflict(b.conflictColumns, b.updateColumns, b.updateExcluded)
                  ELSE <<>>),
     args |-> Flatten(b.values)]

(* Calls on the insert, update and upsert builders *)

InsertKinds == {"insert", "rows"}

UpdateKinds == {"update"}

UpsertKinds == {"upsert", "conflict"}

(* A panic ends the program *)
Panicked == last.op = "Values" /\ last.panic

Touch(kinds, on, name) ==
    /\ kind \in kinds
    /\ ~Panicked
    /\ nops < Budget
    /\ nops' = nops + 1
    /\ last' = [op |-> name, on |-> on]
    /\ UNCHANGED <<strs, anys, sel, cloned, stk, gh, out, kind, del, db, pag, trav, clones>>

(* A Values call: last keeps what was handed over and whether it panicked  *)
TouchValues(kinds, on, arg, panic) ==
    /\ kind \in kinds
    /\ ~Panicked
    /\ nops < Budget
    /\ nops' = nops + 1
    /\ last' = [op |-> "Values", on |-> on, arg |-> arg, panic |-> panic]
    /\ UNCHANGED <<strs, anys, sel, cloned, stk, gh, out, kind, del, db, pag, trav, clones>>

Ages == [c \in {ColId, ColAge} |-> IF c = ColId THEN 1 ELSE 2]

(* What the caller hands to Values of the insert builder *)
InsertInputs ==
    {<<Scalar(1), Scalar(2)>>, <<Scalar(2), Scalar(1)>>, <<Scalar(1)>>, <<NilValue>>,
     <<Struct(<<ColId, ColAge>>, Ages)>>, <<MapValue(<<ColId, ColAge>>, Ages)>>,
     <<SliceOf("struct", <<Struct(<<ColAge>>, Ages), Struct(<<ColAge, ColId>>, Ages)>>, 0)>>,
     <<SliceOf("int", <<Scalar(1), Scalar(2)>>, 2)>>}

(* What the caller hands to Values of the upsert builder *)
UpsertInputs ==
    {MapValue(<<ColId, ColAge>>, Ages), MapValue(<<ColAge, ColId>>, Ages),
     MapValue(<<ColId>>, Ages), Struct(<<ColId, ColAge>>, Ages), NilValue, Scalar(1),
     SliceOf("map", <<MapValue(<<ColId>>, Ages), Scalar(2)>>, 0)}

InsColumns ==
    /\ Touch(InsertKinds, "insert", "Columns")
    /\ \E cols \in {<<ColId>>, <<ColId, ColAge>>} : ins' = insertBuilder_Columns(ins, cols)
    /\ UNCHANGED <<upd, ups>>

InsValues ==
    /\ \E values \in InsertInputs :
          \E R \in {insertBuilder_Values(ins, values)} :
              /\ TouchValues(InsertKinds, "insert", values, R.panic)
              /\ ins' = R.b
    /\ UNCHANGED <<upd, ups>>

InsIgnore ==
    /\ Touch(InsertKinds, "insert", "Ignore")
    /\ ins' = insertBuilder_Ignore(ins)
    /\ UNCHANGED <<upd, ups>>

InsFromSelect ==
    /\ Touch(InsertKinds, "insert", "FromSelect")
    /\ ins' = insertBuilder_FromSelect(ins, "s")
    /\ UNCHANGED <<upd, ups>>

UpdSet ==
    /\ Touch(UpdateKinds, "update", "Set")
    /\ \E v \in Vals : upd' = updateBuilder_Set(upd, ColAge, v)
    /\ UNCHANGED <<ins, ups>>

UpdWhere ==
    /\ Touch(UpdateKinds, "update", "Where")
    /\ \E v \in Vals : upd' = updateBuilder_Where(upd, ColId, OpEq, v)
    /\ UNCHANGED <<ins, ups>>

UpsColumns ==
    /\ Touch(UpsertKinds, "upsert", "Columns")
    /\ ups' = upsertBuilder_Columns(ups, <<ColId, ColAge>>)
    /\ UNCHANGED <<ins, upd>>

UpsValues ==
    /\ \E data \in UpsertInputs :
          /\ TouchValues(UpsertKinds, "upsert", <<data>>, FALSE)
          /\ ups' = upsertBuilder_Values(ups, data)
    /\ UNCHANGED <<ins, upd>>

UpsOnConflict ==
    /\ Touch(UpsertKinds, "upsert", "OnConflict")
    /\ ups' = upsertBuilder_OnConflict(ups, <<ColId>>)
    /\ UNCHANGED <<ins, upd>>

UpsDoUpdate ==
    /\ Touch(UpsertKinds, "upsert", "DoUpdate")
    /\ \E cols \in {<<ColAge>>, <<ColId, ColAge>>} : ups' = upsertBuilder_DoUpdate(ups, cols)
    /\ UNCHANGED <<ins, upd>>

UpsDoUpdateExcept ==
    /\ Touch(UpsertKinds, "upsert", "DoUpdateExcept")
    /\ \E cols \in {<<ColId>>, <<ColAge>>} : ups' = upsertBuilder_DoUpdateExcept(ups, cols)
    /\ UNCHANGED <<ins, upd>>

UpsDoNothing ==
    /\ Touch(UpsertKinds, "upsert", "DoNothing")
    /\ ups' = upsertBuilder_DoNothing(ups)
    /\ UNCHANGED <<ins, upd>>

UpsUpdateWhere ==
    /\ Touch(UpsertKinds, "upsert", "UpdateWhere")
    /\ \E v \in Vals : ups' = upsertBuilder_UpdateWhere(ups, <<T("age"), T(">"), Ph(v)>>, <<v>>)
    /\ UNCHANGED <<ins, upd>>

(* ToSQL of the insert, update and upsert builders *)

Rendered(kinds, on, q) ==
    /\ kind \in kinds
    /\ ~Panicked
    /\ out' = q
    /\ last' = [op |-> "ToSQL", on |-> on]
    /\ UNCHANGED <<strs, anys, sel, cloned, stk, gh, nops, kind, del, ins, upd, ups,
                   db, pag, trav, clones>>

InsToSQL ==
    Rendered(InsertKinds, "insert", insertBuilder_buildSQL([strs |-> strs, anys |-> anys, id |-> "s"], ins, sel))

UpdToSQL == Rendered(UpdateKinds, "update", updateBuilder_buildSQL(upd))

UpsToSQL == Rendered(UpsertKinds, "upsert", upsertBuilder_buildSQL(ups))


(* The same predicate call made on a select, a delete and an update        *)
(* builder: Rs and Rd are the select and the delete call, u the update     *)
(* builder after its call.                                                 *)

Together(name, Rs, Rd, u) ==
    /\ kind = "where"
    /\ nops < Budget
    /\ sel' = [sel EXCEPT !["s"] = Rs.b]
    /\ del' = Rd.b
    /\ upd' = u
    /\ strs' = Restrict(Rd.strs, Live(SliceFieldsS, sel', stk)
                                    \cup {Rd.b[f].arr : f \in {"joins", "wheres", "orders"}})
    /\ anys' = Restrict(Rd.anys, Live(SliceFieldsA, sel', stk) \cup {Rd.b.whereArgs.arr})
    /\ nops' = nops + 1
    /\ last' = [op |-> name, on |-> "all"]
    /\ UNCHANGED <<cloned, stk, gh, out, kind, ins, ups, db, pag, trav, clones>>

After(Rs) == [strs |-> Rs.strs, anys |-> Rs.anys, id |-> "d"]

AllWhere ==
    \E v \in Vals, operator \in {OpEq, OpGt} :
        \E Rs \in {Where(Mach("s"), sel["s"], ColId, operator, v)} :
            Together("Where", Rs, deleteBuilder_Where(After(Rs), del, ColId, operator, v),
                     updateBuilder_Where(upd, ColId, operator, v))

AllWhereEq ==
    \E v \in Vals :
        \E Rs \in {WhereEq(Mach("s"), sel["s"], ColAge, v)} :
            Together("WhereEq", Rs, deleteBuilder_WhereEq(After(Rs), del, ColAge, v),
                     updateBuilder_WhereEq(upd, ColAge, v))

AllWhereIn ==
    \E vs \in ValLists :
        \E Rs \in {WhereIn(Mach("s"), sel["s"], ColId, vs)} :
            Together("WhereIn", Rs, deleteBuilder_WhereIn(After(Rs), del, ColId, vs),
                     updateBuilder_WhereIn(upd, ColId, vs))

AllWhereRaw ==
    \E raw \in {RawCond(1), RawParen} :
        \E Rs \in {WhereRaw(Mach("s"), sel["s"], raw.cond, raw.args)} :
            Together("WhereRaw", Rs, deleteBuilder_WhereRaw(After(Rs), del, raw.cond, raw.args),
                     updateBuilder_WhereRaw(upd, raw.cond, raw.args))

-----------------------------------------------------------------------------
(* Clone of the delete, the insert and the update builder, and calls on a  *)
(* builder ("b") and on its clone ("c")                                    *)

insertBuilder_Clone(b) ==
    [table |-> b.table, columns |-> b.columns, values |-> b.values,
     onConflict |-> b.onConflict, fromSelect |-> b.fromSelect]

updateBuilder_Clone(b) ==
    [table |-> b.table, sets |-> b.sets, setArgs |-> b.setArgs, joins |-> b.joins,
     wheres |-> b.wheres, whereArgs |-> b.whereArgs, limit |-> b.limit]

deleteBuilder_Clone(M, d, c) ==
    LET c1 == MakeCopy(M.strs, d.joins, Fresh(M.strs, c, "joins"))
        c2 == MakeCopy(c1.m, d.wheres, Fresh(c1.m, c, "wheres"))
        c3 == MakeCopy(c2.m, d.orders, Fresh(c2.m, c, "orders"))
        a1 == MakeCopy(M.anys, d.whereArgs, Fresh(M.anys, c, "whereArgs"))
    IN  Res(c3.m, a1.m,
            [table |-> d.table, joins |-> c1.sl, wheres |-> c2.sl, whereArgs |-> a1.sl,
             orders |-> c3.sl, limit |-> d.limit])

CloneCall(k, on, name) ==
    /\ kind = k
    /\ nops < Budget
    /\ on = "c" => cloned
    /\ nops' = nops + 1
    /\ last' = [op |-> name, on |-> on]

InsClone ==
    /\ CloneCall("insert.clone", "b", "Clone")
    /\ ~cloned
    /\ cloned' = TRUE
    /\ clones' = [clones EXCEPT !.ins = insertBuilder_Clone(ins)]
    /\ UNCHANGED <<strs, anys, sel, stk, gh, out, kind, del, ins, upd, ups, db, pag, trav>>

UpdClone ==
    /\ CloneCall("update.clone", "b", "Clone")
    /\ ~cloned
    /\ cloned' = TRUE
    /\ clones' = [clones EXCEPT !.upd = updateBuilder_Clone(upd)]
    /\ UNCHANGED <<strs, anys, sel, stk, gh, out, kind, del, ins, upd, ups, db, pag, trav>>

DelClone ==
    /\ CloneCall("delete.clone", "b", "Clone")
    /\ ~cloned
    /\ cloned' = TRUE
    /\ \E R \in {deleteBuilder_Clone(DelMach, del, "c")} :
          /\ clones' = [clones EXCEPT !.del = R.b]
          /\ strs' = R.strs
          /\ anys' = R.anys
    /\ UNCHANGED <<sel, stk, gh, out, kind, del, ins, upd, ups, db, pag, trav>>

(* A call on the insert builder (t = "b") or on its clone (t = "c"): f is  *)
(* the builder after the call as a function of the builder before it.      *)
OnIns(t, name, after) ==
    /\ CloneCall("insert.clone", t, name)
    /\ IF t = "b" THEN ins' = after /\ clones' = clones
       ELSE clones' = [clones EXCEPT !.ins = after] /\ ins' = ins
    /\ UNCHANGED <<strs, anys, sel, cloned, stk, gh, out, kind, del, upd, ups, db, pag, trav>>

InsTarget(t) == IF t = "b" THEN ins ELSE clones.ins

OnInsColumns(t) ==
    \E cols \in {<<ColId>>, <<ColId, ColAge>>} :
        OnIns(t, "Columns", insertBuilder_Columns(InsTarget(t), cols))

OnInsValues(t) ==
    \E values \in {<<Scalar(1)>>, <<Scalar(1), Scalar(2)>>} :
        OnIns(t, "Values", insertBuilder_Values(InsTarget(t), values).b)

OnInsIgnore(t) == OnIns(t, "Ignore", insertBuilder_Ignore(InsTarget(t)))

(* Only the builder is handed the select builder, never its clone *)
OnInsFromSelect(t) ==
    /\ t = "b"
    /\ OnIns(t, "FromSelect", insertBuilder_FromSelect(InsTarget(t), "s"))

(* A predicate call on the select builder the caller handed to FromSelect  *)
EmbeddedWhere ==
    /\ kind = "insert.clone"
    /\ nops < Budget
    /\ \E v \in Vals :
          \E R \in {Where(Mach("s"), sel["s"], ColId, OpGt, v)} :
              Commit("s", R, Entry(FALSE, R, <<v>>), "Where")

OnUpd(t, name, after) ==
    /\ CloneCall("update.clone", t, name)
    /\ IF t = "b" THEN upd' = after /\ clones' = clones
       ELSE clones' = [clones EXCEPT !.upd = after] /\ upd' = upd
    /\ UNCHANGED <<strs, anys, sel, cloned, stk, gh, out, kind, del, ins, ups, db, pag, trav>>

UpdTarget(t) == IF t = "b" THEN upd ELSE clones.upd

OnUpdSet(t) == \E v \in Vals : OnUpd(t, "Set", updateBuilder_Set(UpdTarget(t), ColAge, v))

OnUpdWhere(t) ==
    \E v \in Vals : OnUpd(t, "Where", updateBuilder_Where(UpdTarget(t), ColId, OpEq, v))

OnDel(t, name, R) ==
    /\ CloneCall("delete.clone", t, name)
    /\ IF t = "b" THEN del' = R.b /\ clones' = clones
       ELSE clones' = [clones EXCEPT !.del = R.b] /\ del' = del
    /\ strs' = Restrict(R.strs, {b[f].arr : f \in {"joins", "wheres", "orders"},
                                            b \in {del', clones'.del}})
    /\ anys' = Restrict(R.anys, {del'.whereArgs.arr, clones'.del.whereArgs.arr})
    /\ UNCHANGED <<sel, cloned, stk, gh, out, kind, ins, upd, ups, db, pag, trav>>

DelTarget(t) == IF t = "b" THEN del ELSE clones.del

DelTargetMach(t) == [strs |-> strs, anys |-> anys, id |-> IF t = "b" THEN "d" ELSE "c"]

OnDelWhere(t) ==
    \E v \in Vals :
        OnDel(t, "Where", deleteBuilder_Where(DelTargetMach(t), DelTarget(t), ColId, OpGt, v))

OnDelOrderBy(t) ==
    OnDel(t, "OrderBy", deleteBuilder_OrderBy(DelTargetMach(t), DelTarget(t), ColId))

OnDelLimit(t) ==
    \E n \in 1..MaxPerPage :
        OnDel(t, "Limit", deleteBuilder_Limit(DelTargetMach(t), DelTarget(t), n))
(* Paginate on the builder the caller drives *)

CallPaginate ==
    /\ kind \in {"paginate", "terminal", "pages"}
    /\ nops < Budget
    /\ \E page \in 1..MaxPage, perPage \in 1..MaxPerPage :
          \E R \in {Paginate(Mach("s"), sel["s"], db, page, perPage)} :
              /\ sel' = [sel EXCEPT !["s"] = R.b]
              /\ strs' = Restrict(R.strs, Live(SliceFieldsS, sel', stk))
              /\ anys' = Restrict(R.anys, Live(SliceFieldsA, sel', stk))
              /\ db' = R.db
              /\ pag' = [page |-> page, perPage |-> perPage, res |-> R.res]
    /\ nops' = nops + 1
    /\ last' = [op |-> "Paginate", on |-> "s"]
    /\ UNCHANGED <<cloned, stk, gh, out, kind, del, ins, upd, ups, trav, clones>>

(* A keyset traversal: the caller starts with lastValue = nil and, while   *)
(* HasMore, calls again with the NextCursor it was given; every call is on *)
(* a new builder Select().From("users").                                   *)

KeysetCall(lastValue, perPage, direction) ==
    \E R \in {KeysetPaginate([strs |-> <<>>, anys |-> <<>>, id |-> "s"], UsersQuery, db,
                               ColId, lastValue, perPage, direction)} :
        /\ sel' = [sel EXCEPT !["s"] = R.b]
        /\ strs' = Restrict(R.strs, Live(SliceFieldsS, sel', stk))
        /\ anys' = Restrict(R.anys, Live(SliceFieldsA, sel', stk))
        /\ db' = R.db
        /\ pag' = [page |-> 0, perPage |-> perPage, res |-> R.res]
        /\ trav' = IF R.res.err
                   THEN [trav EXCEPT !.state = "error", !.cursor = lastValue,
                                     !.perPage = perPage, !.dir = direction]
                   ELSE [trav EXCEPT
                            !.pages = Append(@, [k \in DOMAIN R.res.Data |-> R.res.Data[k].id]),
                            !.state = IF R.res.HasMore THEN "more" ELSE "done",
                            !.cursor = lastValue, !.perPage = perPage, !.dir = direction]
        /\ nops' = nops + 1
        /\ last' = [op |-> "KeysetPaginate", on |-> "s"]
        /\ UNCHANGED <<cloned, stk, gh, out, kind, del, ins, upd, ups, clones>>

KeysetFirst ==
    /\ kind = "keyset"
    /\ trav.state = "idle"
    /\ KeysetCall(NilPtr, trav.perPage, trav.dir)

KeysetNext ==
    /\ kind = "keyset"
    /\ trav.state = "more"
    /\ KeysetCall(pag.res.NextCursor, trav.perPage, trav.dir)

(* One KeysetPaginate call with any cursor, page size and direction word   *)
Directions == {"asc", "desc", "up"}

KeysetProbe ==
    /\ kind = "probe"
    /\ trav.state = "idle"
    /\ \E lastValue \in {NilPtr} \cup {Ptr(v) : v \in 0..(MaxRows + 1)},
          perPage \in 1..MaxPerPage, direction \in Directions :
          KeysetCall(lastValue, perPage, direction)

(* Terminal methods on the builder the caller drives: the call leaves the  *)
(* builder, the heaps and the database as R has them and returns R.res.    *)

Terminal(name, R) ==
    /\ sel' = [sel EXCEPT !["s"] = R.b]
    /\ strs' = Restrict(R.strs, Live(SliceFieldsS, sel', stk))
    /\ anys' = Restrict(R.anys, Live(SliceFieldsA, sel', stk))
    /\ db' = R.db
    /\ pag' = [page |-> 0, perPage |-> 0, res |-> R.res]
    /\ nops' = nops + 1
    /\ last' = [op |-> name, on |-> "s"]
    /\ UNCHANGED <<cloned, stk, gh, out, kind, del, ins, upd, ups, trav, clones>>

CanRun == kind = "terminal" /\ nops < Budget

setLogger(s) == [s EXCEPT !.logger = TRUE]

(* The factory hands its logger to the builder before the caller has it *)
CallSetLogger ==
    /\ kind = "terminal"
    /\ nops = 0
    /\ ~sel["s"].logger
    /\ sel' = [sel EXCEPT !["s"] = setLogger(@)]
    /\ last' = [op |-> "setLogger", on |-> "s"]
    /\ UNCHANGED <<strs, anys, cloned, stk, gh, nops, out, kind, del, ins, upd, ups, db, pag, trav, clones>>

CallOne == CanRun /\ \E R \in {One(Mach("s"), sel["s"], db)} : Terminal("One", R)

CallRow == CanRun /\ \E R \in {Row(Mach("s"), sel["s"], db)} : Terminal("Row", R)

CallRows == CanRun /\ \E R \in {Rows(Mach("s"), sel["s"], db)} : Terminal("Rows", R)

CallRowsMapKey ==
    CanRun /\ \E R \in {RowsMapKey(Mach("s"), sel["s"], db, ColId)} : Terminal("RowsMapKey", R)

CallField ==
    CanRun /\ \E column \in {ColId, ColAge} :
                 \E R \in {Field(Mach("s"), sel["s"], db, column)} : Terminal("Field", R)

CallPluck ==
    CanRun /\ \E column \in {ColId, ColAge} :
                 \E R \in {Pluck(Mach("s"), sel["s"], db, column)} : Terminal("Pluck", R)

CallCount == CanRun /\ \E R \in {Count(Mach("s"), sel["s"], db)} : Terminal("Count", R)

CallCountColumn ==
    CanRun /\ \E R \in {CountColumn(Mach("s"), sel["s"], db, ColId)} : Terminal("CountColumn", R)

CallSum == CanRun /\ \E R \in {Sum(Mach("s"), sel["s"], db, ColId)} : Terminal("Sum", R)

CallAvg == CanRun /\ \E R \in {Avg(Mach("s"), sel["s"], db, ColId)} : Terminal("Avg", R)

CallMax == CanRun /\ \E R \in {Max(Mach("s"), sel["s"], db, ColId)} : Terminal("Max", R)

CallMin == CanRun /\ \E R \in {Min(Mach("s"), sel["s"], db, ColId)} : Terminal("Min", R)

CallExists == CanRun /\ \E R \in {Exists(Mach("s"), sel["s"], db)} : Terminal("Exists", R)

-----------------------------------------------------------------------------
(* Bulk builder: ProcessInBatches.  trav keeps the position of the loop:   *)
(* the batch size, the offset, the batches handed to the processor so far, *)
(* and what the query rendered when the call began.  The processor returns *)
(* nil.                                                                    *)

(* One pass through the loop body up to the result of Rows *)
batchQuery(M, query, d, batchSize, offset) ==
    Only({Only({Only({Rows([strs |-> off.strs, anys |-> off.anys, id |-> "n"], off.b, d) :
        off \in {Offset([strs |-> lim.strs, anys |-> lim.anys, id |-> "n"], lim.b, offset)}}) :
        lim \in {Limit([strs |-> cl.strs, anys |-> cl.anys, id |-> "n"], cl.b, batchSize)}}) :
        cl \in {Clone(M, query, "n")}})

ProcessInBatches ==
    /\ kind = "batches"
    /\ trav.state \in {"idle", "more"}
    /\ \E rows \in {batchQuery(Mach("s"), sel["s"], db, trav.batchSize, trav.offset)} :
          /\ db' = rows.db
          /\ trav' = [trav EXCEPT
                !.before = IF trav.state = "idle" THEN ToSQL(Mach("s"), sel["s"]) ELSE @,
                !.batches = IF rows.res.err \/ Len(rows.res.data) = 0 THEN @
                            ELSE Append(@, rows.res.data),
                !.offset = IF rows.res.err \/ Len(rows.res.data) < trav.batchSize THEN @
                           ELSE @ + trav.batchSize,
                !.state = IF rows.res.err THEN "error"
                          ELSE IF Len(rows.res.data) < trav.batchSize THEN "done"
                          ELSE "more"]
    /\ last' = [op |-> "ProcessInBatches", on |-> "s"]
    /\ UNCHANGED <<strs, anys, sel, cloned, stk, gh, nops, out, kind, del, ins, upd, ups,
                   pag, clones>>

(* The caller builds the query before it hands it over *)
BuildQuery ==
    /\ kind = "batches"
    /\ trav.state = "idle"
    /\ (CallWhere("s") \/ CallLimit("s") \/ CallOffset("s"))
-----------------------------------------------------------------------------
(* Specifications.  The caller runs one scenario; kind names it.           *)

NoOut == [sql |-> <<>>, args |-> <<>>]

NoPag == [page |-> 0, perPage |-> 0, res |-> [err |-> FALSE]]

NoTrav == [perPage |-> 0, dir |-> "", pages |-> <<>>, state |-> "none", cursor |-> NilPtr]

(* Table users: ids 1..n in storage order, ascending or descending *)
Tables ==
    {[k \in 1..n |-> k] : n \in 0..MaxRows} \cup {[k \in 1..n |-> n + 1 - k] : n \in 2..MaxRows}

(* The executor with table users = rows; log lists the statements it was   *)
(* handed, logq the LogQuery calls the logger received.                    *)
NewDatabase(rows) == [rows |-> rows, log |-> <<>>, logq |-> <<>>, stub |-> NoStub]

(* The row of a stub: every aggregate NULL, or every aggregate with a value *)
StubRow(null) ==
    [count |-> IF null THEN 0 ELSE 2, sum |-> IF null THEN NilPtr ELSE Ptr(3),
     avg |-> IF null THEN NilPtr ELSE Ptr(2), max |-> IF null THEN NilPtr ELSE Ptr(2),
     min |-> IF null THEN NilPtr ELSE Ptr(1), _exists |-> ~null]

StubExecutors ==
    {[NewDatabase(<<>>) EXCEPT !.stub = [on |-> TRUE, err |-> e.err, rows |-> e.rows,
                                         table |-> FALSE]] :
        e \in {[err |-> TRUE, rows |-> <<>>], [err |-> FALSE, rows |-> <<>>],
               [err |-> FALSE, rows |-> <<StubRow(TRUE)>>],
               [err |-> FALSE, rows |-> <<StubRow(FALSE)>>]}}

TableDoubles ==
    {[NewDatabase(t) EXCEPT !.stub = [on |-> TRUE, err |-> FALSE, rows |-> <<>>,
                                     table |-> TRUE]] : t \in Tables}

NoClones ==
    [del |-> NewDeleteBuilder(UsersTable), ins |-> NewInsertBuilder(UsersTable),
     upd |-> NewUpdateBuilder(UsersTable)]

InitCommon ==
    /\ strs = <<>>
    /\ anys = <<>>
    /\ sel = [i \in Roots |-> IF kind \in {"clauses", "group"} THEN NewSelectBuilder(NilSlice)
                           ELSE UsersQuery]
    /\ cloned = FALSE
    /\ stk = <<>>
    /\ gh = [i \in Roots |-> <<>>]
    /\ nops = 0
    /\ last = [op |-> "new", on |-> ""]
    /\ out = NoOut
    /\ del = NewDeleteBuilder(UsersTable)
    /\ ins = NewInsertBuilder(UsersTable)
    /\ upd = NewUpdateBuilder(UsersTable)
    /\ ups = NewUpsertBuilder(UsersTable)
    /\ pag = NoPag
    /\ clones = NoClones

NoDatabase ==
    /\ db = NewDatabase(<<>>)
    /\ trav = NoTrav

(* Predicates of the select builder and of the delete builder *)

Init ==
    /\ kind \in {"select", "delete"}
    /\ InitCommon
    /\ NoDatabase

Next ==
    \/ CallWhere("s") \/ CallWhereEq("s") \/ CallOrWhere("s")
    \/ CallWhereIn("s") \/ CallWhereNotIn("s") \/ CallOrWhereIn("s")
    \/ CallWhereBetween("s") \/ CallWhereNull("s")
    \/ CallWhereRaw("s") \/ CallOrWhereRaw("s") \/ CallWhereExists("s")
    \/ EnterGroup("s") \/ ReturnGroup("s")
    \/ DelWhere \/ DelWhereEq \/ DelWhereIn \/ DelWhereRaw \/ DelLimit \/ DelOrderBy

Spec == Init /\ [][Next]_vars

(* A builder and its clone *)

InitClone ==
    /\ kind = "clone"
    /\ InitCommon
    /\ NoDatabase

NextClone ==
    \/ CallClone
    \/ \E i \in Roots :
          \/ CallWhere(i) \/ CallWhereBetween(i) \/ CallJoin(i) \/ CallGroupBy(i)
          \/ CallHaving(i) \/ CallOrderBy(i) \/ CallLimit(i) \/ CallOffset(i)
          \/ CallSetColumns(i)

SpecClone == InitClone /\ [][NextClone]_vars

(* Rendering: every builder, ToSQL between and after the calls *)

InitRender ==
    /\ kind \in {"select", "insert", "update", "delete", "upsert"}
    /\ InitCommon
    /\ NoDatabase

NextRender ==
    \/ CallWhere("s") \/ CallOrWhere("s") \/ CallHaving("s") \/ CallLimit("s") \/ CallToSQL("s")
    \/ DelWhere \/ DelWhereRaw \/ DelLimit \/ DelToSQL
    \/ InsColumns \/ InsValues \/ InsIgnore \/ InsFromSelect \/ InsToSQL
    \/ UpdSet \/ UpdWhere \/ UpdToSQL
    \/ UpsColumns \/ UpsValues \/ UpsOnConflict \/ UpsDoUpdate \/ UpsToSQL

SpecRender == InitRender /\ [][NextRender]_vars

(* Clause order: every clause method, each a bounded number of times *)

InitClauses ==
    /\ kind = "clauses"
    /\ InitCommon
    /\ NoDatabase

NextClauses ==
    \/ (sel["s"].table = <<>> /\ CallFrom("s"))
    \/ (sel["s"].joins.len < MaxClauseCalls /\ (CallJoin("s") \/ CallLeftJoin("s")))
    \/ (sel["s"].wheres.len <= MaxClauseCalls /\ CallWhere("s"))
    \/ (sel["s"].groups.len < MaxClauseCalls /\ CallGroupBy("s"))
    \/ (sel["s"].havings.len < MaxClauseCalls /\ CallHaving("s"))
    \/ (sel["s"].orders.len < MaxClauseCalls /\ (CallOrderBy("s") \/ CallOrderByDesc("s")))
    \/ (sel["s"].limit.nil /\ CallLimit("s"))
    \/ (sel["s"].offset.nil /\ CallOffset("s"))

SpecClauses == InitClauses /\ [][NextClauses]_vars

(* Paginate against table users *)

InitPaginate ==
    /\ kind = "paginate"
    /\ InitCommon
    /\ db \in {NewDatabase(t) : t \in Tables}
    /\ trav = NoTrav

NextPaginate ==
    \/ CallWhere("s") \/ CallLimit("s") \/ CallOffset("s") \/ CallPage("s") \/ CallPaginate

SpecPaginate == InitPaginate /\ [][NextPaginate]_vars

(* A keyset traversal of table users *)

InitKeyset ==
    /\ kind = "keyset"
    /\ InitCommon
    /\ db \in {NewDatabase(t) : t \in Tables}
    /\ trav \in {[perPage |-> n, dir |-> d, pages |-> <<>>, state |-> "idle", cursor |-> NilPtr] :
                    n \in 1..MaxPerPage, d \in {"asc", "desc"}}

NextKeyset == KeysetFirst \/ KeysetNext

SpecKeyset == InitKeyset /\ [][NextKeyset]_vars


(* Single KeysetPaginate calls on table users *)

InitProbe ==
    /\ kind = "probe"
    /\ InitCommon
    /\ db \in {NewDatabase(t) : t \in Tables}
    /\ trav = [NoTrav EXCEPT !.state = "idle"]

NextProbe == KeysetProbe

SpecProbe == InitProbe /\ [][NextProbe]_vars

(* Terminal methods against table users and against stubs, with and        *)
(* without a logger                                                        *)

InitTerminal ==
    /\ kind = "terminal"
    /\ InitCommon
    /\ db \in {NewDatabase(t) : t \in {u \in Tables : Len(u) <= MaxPerPage}} \cup StubExecutors
    /\ trav = NoTrav

NextTerminal ==
    \/ CallSetLogger
    \/ CallWhere("s") \/ CallLimit("s") \/ CallOffset("s") \/ CallSetColumns("s")
    \/ CallOne \/ CallRow \/ CallRows \/ CallRowsMapKey
    \/ CallField \/ CallPluck \/ CallCount \/ CallCountColumn
    \/ CallSum \/ CallAvg \/ CallMax \/ CallMin \/ CallExists \/ CallPaginate

SpecTerminal == InitTerminal /\ [][NextTerminal]_vars

(* Rows and conflict handling: the insert builder and the upsert builder *)

InitWrite ==
    /\ kind \in {"rows", "conflict"}
    /\ InitCommon
    /\ NoDatabase

NextWrite ==
    \/ InsColumns \/ InsValues \/ InsToSQL
    \/ UpsColumns \/ UpsValues \/ UpsOnConflict \/ UpsDoUpdate \/ UpsDoUpdateExcept
    \/ UpsDoNothing \/ UpsUpdateWhere \/ UpsToSQL

SpecWrite == InitWrite /\ [][NextWrite]_vars

(* One sequence of predicate calls on a select, a delete and an update builder *)

InitWhere ==
    /\ kind = "where"
    /\ InitCommon
    /\ NoDatabase

NextWhere == AllWhere \/ AllWhereEq \/ AllWhereIn \/ AllWhereRaw

SpecWhere == InitWhere /\ [][NextWhere]_vars

(* Conditional predicates: When and WhenFunc between plain predicate calls *)

InitWhen ==
    /\ kind = "when"
    /\ InitCommon
    /\ NoDatabase

NextWhen ==
    \/ CallWhere("s") \/ CallOrWhere("s") \/ CallWhen("s") \/ CallWhenFunc("s")

SpecWhen == InitWhen /\ [][NextWhen]_vars

(* A delete, an insert or an update builder and its clone; the insert      *)
(* builder may embed the select builder                                    *)

InitClones ==
    /\ kind \in CloneKinds
    /\ InitCommon
    /\ NoDatabase

NextClones ==
    \/ InsClone \/ EmbeddedWhere
    \/ UpdClone
    \/ DelClone
    \/ \E t \in {"b", "c"} :
          \/ OnInsColumns(t) \/ OnInsValues(t) \/ OnInsIgnore(t) \/ OnInsFromSelect(t)
          \/ OnUpdSet(t) \/ OnUpdWhere(t)
          \/ OnDelWhere(t) \/ OnDelOrderBy(t) \/ OnDelLimit(t)

SpecClones == InitClones /\ [][NextClones]_vars

(* Joins with conditions of several shapes *)

InitJoin ==
    /\ kind = "join"
    /\ InitCommon
    /\ NoDatabase

NextJoin == CallJoin("s") \/ CallLeftJoin("s")

SpecJoin == InitJoin /\ [][NextJoin]_vars

(* Paginate against an executor that holds table users and answers the     *)
(* count statement                                                         *)

InitPages ==
    /\ kind = "pages"
    /\ InitCommon
    /\ db \in TableDoubles
    /\ trav = NoTrav

NextPages == CallWhere("s") \/ CallPaginate

SpecPages == InitPages /\ [][NextPages]_vars

(* Groups whose callbacks also call the methods of the other clauses *)

InitGroup ==
    /\ kind = "group"
    /\ InitCommon
    /\ NoDatabase

NextGroup ==
    \/ EnterGroup("s") \/ ReturnGroup("s") \/ CallWhere("s")
    \/ CallFrom("s") \/ CallJoin("s") \/ CallGroupBy("s") \/ CallHaving("s")
    \/ CallOrderBy("s") \/ CallLimit("s") \/ CallOffset("s")

SpecGroup == InitGroup /\ [][NextGroup]_vars

(* ProcessInBatches over table users *)

InitBatches ==
    /\ kind = "batches"
    /\ InitCommon
    /\ db \in {NewDatabase(t) : t \in Tables}
    /\ trav \in {[batchSize |-> n, offset |-> 0, batches |-> <<>>, state |-> "idle",
                   before |-> NoOut] : n \in 1..MaxPerPage}

NextBatches == BuildQuery \/ ProcessInBatches

SpecBatches == InitBatches /\ [][NextBatches]_vars
-----------------------------------------------------------------------------
(* Properties.  History operators: what the calls made so far say the      *)
(* rendering must be.                                                      *)

Rendering(i) == ToSQL([strs |-> strs, anys |-> anys, id |-> i], sel[i])

WhereHist(g) == SelectSeq(g, LAMBDA e : e.cl = "where")

HavingHist(g) == SelectSeq(g, LAMBDA e : e.cl = "having")

HistArgs(g) == Flatten([k \in DOMAIN g |-> g[k].args])

PlaceholderTags(text) ==
    LET ph == SelectSeq(text, LAMBDA t : t[1] = PlaceholderFormat)
    IN  [k \in DOMAIN ph |-> ph[k][2]]

AfterWhere(sql) ==
    IF IndexOf(sql, "WHERE") = 0 THEN <<>> ELSE SubSeq(sql, IndexOf(sql, "WHERE") + 1, Len(sql))

(* The conditions of the history joined by one connective each: OR in      *)
(* front of a condition an or-variant added, AND in front of any other.    *)
ReferenceWhere(g) ==
    Flatten([k \in DOMAIN g |->
                IF k = 1 THEN g[k].body
                ELSE <<T(IF g[k].or THEN "OR" ELSE "AND")>> \o g[k].body])

(* C1: for every sequence of predicate calls on the select builder, groups *)
(* nested to any depth included, the placeholders of the SQL that ToSQL    *)
(* returns are as many as the returned arguments, the i-th argument is the *)
(* value the i-th placeholder (left to right) was emitted for, and the     *)
(* arguments are the values supplied, in call order.                       *)
C1_PlaceholdersMatchArgs ==
    (kind = "select" /\ stk = <<>>) =>
        /\ PlaceholderTags(Rendering("s").sql) = Rendering("s").args
        /\ Rendering("s").args = HistArgs(gh["s"])

C1_Witness ==
    /\ kind = "select"
    /\ stk = <<>>
    /\ last.op \in {"WhereGroup", "OrWhereGroup"}
    /\ Len(Rendering("s").args) >= 3
    /\ \E k \in DOMAIN gh["s"] : Len(gh["s"][k].args) >= 2

(* C2: in the WHERE clause of the select builder every two consecutive     *)
(* predicate fragments are separated by exactly one connective, OR when    *)
(* the later one was added by an or-variant or OrWhereGroup and AND        *)
(* otherwise, whatever the text of a raw condition.                        *)
C2_OneConnectiveBetweenFragments ==
    (kind = "select" /\ stk = <<>> /\ gh["s"] # <<>>) =>
        AfterWhere(Rendering("s").sql) = ReferenceWhere(gh["s"])

(* C3: WhereGroup(fn) whose fn adds a predicate renders, on a builder      *)
(* without predicates, as ( ... ) directly after WHERE, and on a builder   *)
(* with predicates as AND ( ... ) after the text of the existing ones      *)
(* (OrWhereGroup: OR ( ... )); the arguments fn supplied follow, in fn's   *)
(* order, the arguments the builder already held.                          *)
C3_GroupRendering ==
    [][(last'.op \in {"WhereGroup", "OrWhereGroup"} /\ stk' = <<>> /\ gh'["s"] # gh["s"]) =>
        \A pre \in {Rendering("s")},
           post \in {ToSQL([strs |-> strs', anys |-> anys', id |-> "s"], sel'["s"])} :
            \A w \in {AfterWhere(pre.sql)}, w2 \in {AfterWhere(post.sql)} :
                /\ w2[Len(w2)][1] = ")"
                /\ IF sel["s"].wheres.len = 0
                   THEN w2[1][1] = "("
                   ELSE /\ SubSeq(w2, 1, Len(w)) = w
                        /\ w2[Len(w) + 1][1] = (IF last'.op = "WhereGroup" THEN "AND" ELSE "OR")
                        /\ w2[Len(w) + 2][1] = "("
                /\ post.args = pre.args \o HistArgs(Head(stk).gh)]_vars

C3_Witness ==
    /\ kind = "select"
    /\ stk = <<>>
    /\ last.op = "WhereGroup"
    /\ Len(gh["s"]) >= 2
    /\ gh["s"][1].args # <<>>
    /\ gh["s"][Len(gh["s"])].args # <<>>

C5_CloneIndependent ==
    [][cloned =>
        \A i \in Roots :
            last'.on # i =>
                ToSQL([strs |-> strs', anys |-> anys', id |-> i], sel'[i]) = Rendering(i)]_vars

C5_Witness ==
    /\ cloned
    /\ last.on = "s"
    /\ last.op = "Where"
    /\ sel["s"].wheres.len = 3
    /\ sel["c"].wheres.len = 3
    /\ Rendering("s").args # Rendering("c").args

ClauseOrder == <<"SELECT", "FROM", "JOIN", "WHERE", "GROUP", "HAVING", "ORDER", "LIMIT", "OFFSET">>

Positions(sql, kw) == {p \in DOMAIN sql : sql[p][1] = kw}

(* Which of the nine clauses the builder has been given. *)
Configured(s) ==
    <<TRUE, s.table # <<>>, s.joins.len > 0, s.wheres.len > 0, s.groups.len > 0,
      s.havings.len > 0, s.orders.len > 0, ~s.limit.nil, ~s.offset.nil>>

(* C7: the statement of the select builder has its clauses in the order    *)
(* SELECT, FROM, joins, WHERE, GROUP BY, HAVING, ORDER BY, LIMIT, OFFSET,  *)
(* each present exactly when the builder was given it, in whatever order   *)
(* the builder methods were called; the arguments are those of WHERE in    *)
(* insertion order followed by those of HAVING.                            *)
C7_ClauseOrder ==
    kind = "clauses" =>
        \A q \in {Rendering("s")} :
            /\ q.sql[1][1] = "SELECT"
            /\ \A k \in 1..9 : (Positions(q.sql, ClauseOrder[k]) # {}) = Configured(sel["s"])[k]
            /\ \A j, k \in 1..9 :
                   j < k => \A p \in Positions(q.sql, ClauseOrder[j]),
                               p2 \in Positions(q.sql, ClauseOrder[k]) : p < p2
            /\ q.args = HistArgs(WhereHist(gh["s"])) \o HistArgs(HavingHist(gh["s"]))

C7_Witness ==
    /\ kind = "clauses"
    /\ \A k \in 1..9 : Positions(Rendering("s").sql, ClauseOrder[k]) # {}
    /\ gh["s"][1].cl = "having"
    /\ Len(Rendering("s").args) >= 2

(* C8: the count statement that Paginate sends to the database carries no  *)
(* LIMIT and no OFFSET, also when Limit, Offset, Page or an earlier        *)
(* Paginate was applied to the builder.                                    *)
C8_CountWithoutLimitOffset ==
    \A k \in DOMAIN db.log :
        db.log[k].method = "GetContext" =>
            /\ IndexOf(db.log[k].sql, "LIMIT") = 0
            /\ IndexOf(db.log[k].sql, "OFFSET") = 0

(* The rows of the table that satisfy the predicates given to the builder  *)
(* (every predicate of this scenario is id > v), in storage order.         *)
MatchingRows ==
    SelectSeq(db.rows, LAMBDA id : \A k \in DOMAIN gh["s"] : id > gh["s"][k].args[1])

(* C9: Paginate(page, perPage) on a select builder that has no limit and   *)
(* no offset, whose predicates total rows satisfy, returns without error   *)
(* Total = total, LastPage = ceil(total / perPage), the rows at offset     *)
(* (page - 1) * perPage, From = offset + 1 and To = offset + number of     *)
(* rows returned, and From = To = 0 when total = 0.                        *)
C9_PaginateResult ==
    [][(last'.op = "Paginate" /\ sel["s"].limit.nil /\ sel["s"].offset.nil) =>
        \A r \in {pag'.res}, m \in {MatchingRows} :
            /\ ~r.err
            /\ r.Total = Len(m)
            /\ r.LastPage = (Len(m) + pag'.perPage - 1) \div pag'.perPage
            /\ [k \in DOMAIN r.Data |-> r.Data[k].id]
                   = Window(m, (pag'.page - 1) * pag'.perPage, pag'.perPage)
            /\ r.From = (IF Len(m) = 0 THEN 0 ELSE (pag'.page - 1) * pag'.perPage + 1)
            /\ r.To = (IF Len(m) = 0 THEN 0
                       ELSE (pag'.page - 1) * pag'.perPage + Len(r.Data))]_vars

(* The ids of the table in the direction of the traversal *)
InDirection(rows, dir) ==
    SortSeq(rows, LAMBDA a, b : IF dir = "desc" THEN a > b ELSE a < b)

Ceil(a, b) == (a + b - 1) \div b

(* C10: in a keyset traversal of a table that does not change and whose    *)
(* cursor column is unique, every call on a new builder, the pages are     *)
(* consecutive runs of the rows in the order of the traversal (disjoint,   *)
(* without gaps), every page that is followed by another is full, a page   *)
(* with HasMore carries the cursor of the next call and rows are left for  *)
(* it, and the traversal has ended with HasMore = false and every row      *)
(* returned exactly once after at most max(1, ceil(rows / perPage)) calls. *)
C10_KeysetTraversal ==
    kind = "keyset" =>
        \A seen \in {Flatten(trav.pages)}, all \in {InDirection(db.rows, trav.dir)} :
            /\ trav.state # "error"
            /\ Len(seen) <= Len(all)
            /\ seen = SubSeq(all, 1, Len(seen))
            /\ \A k \in DOMAIN trav.pages :
                   k < Len(trav.pages) \/ trav.state = "more"
                       => Len(trav.pages[k]) = trav.perPage
            /\ trav.state = "more" =>
                   /\ Len(seen) < Len(all)
                   /\ pag.res.NextCursor = Ptr(seen[Len(seen)])
                   /\ nops < Ceil(Len(all), trav.perPage)
            /\ trav.state = "done" => seen = all /\ ~pag.res.HasMore
            /\ nops <= (IF Len(all) = 0 THEN 1 ELSE Ceil(Len(all), trav.perPage))

C10_Witness ==
    /\ kind = "keyset"
    /\ trav.state = "done"
    /\ trav.dir = "desc"
    /\ Len(trav.pages) >= 3
    /\ Len(trav.pages[Len(trav.pages)]) < trav.perPage
    /\ db.rows[1] < db.rows[2]

(* The ids that satisfy the cursor predicate of a call, in its direction   *)
Satisfying(rows, cursor, dir) ==
    InDirection(SelectSeq(rows, LAMBDA id : \/ cursor.nil
                                             \/ (dir = "desc" /\ id < cursor.val)
                                             \/ (dir # "desc" /\ id > cursor.val)),
                dir)

(* C11: one KeysetPaginate call with perPage >= 1 asks the database for    *)
(* perPage + 1 rows and returns the first perPage, at most, of the rows    *)
(* that satisfy the cursor predicate; HasMore is true exactly when more    *)
(* than perPage rows satisfy it; NextCursor is the id of the last row      *)
(* returned when HasMore and nil otherwise; PrevCursor is the id of the    *)
(* first row returned, nil when no row is returned.                        *)
C11_KeysetPage ==
    (kind = "probe" /\ last.op = "KeysetPaginate") =>
        \A r \in {pag.res}, sat \in {Satisfying(db.rows, trav.cursor, trav.dir)} :
            /\ ~r.err
            /\ ParseNum(Section(db.log[Len(db.log)].sql, "LIMIT")[1]) = trav.perPage + 1
            /\ Len(r.Data) <= trav.perPage
            /\ [k \in DOMAIN r.Data |-> r.Data[k].id]
                   = SubSeq(sat, 1, IF Len(sat) > trav.perPage THEN trav.perPage ELSE Len(sat))
            /\ r.HasMore = (Len(sat) > trav.perPage)
            /\ r.NextCursor = (IF r.HasMore THEN Ptr(r.Data[Len(r.Data)].id) ELSE NilPtr)
            /\ r.PrevCursor = (IF Len(r.Data) > 0 THEN Ptr(r.Data[1].id) ELSE NilPtr)

C11_Witness ==
    /\ kind = "probe"
    /\ last.op = "KeysetPaginate"
    /\ pag.res.HasMore
    /\ ~trav.cursor.nil
    /\ trav.dir = "desc"
    /\ Len(pag.res.Data) = 2
    /\ Len(Satisfying(db.rows, trav.cursor, trav.dir)) = 3


(* The methods that put their own select list or limit in the builder *)
Restoring == {"Field", "Pluck", "Count", "CountColumn", "Sum", "Avg", "Max", "Min", "Exists"}

(* C12: Field, Pluck, Count, CountColumn, Sum, Avg, Max and Min leave the  *)
(* builder's column list, and Exists its limit, as they found them on      *)
(* every return path, so ToSQL gives the same SQL and args right after the *)
(* call as right before it.                                                *)
C12_TerminalRestores ==
    [][(kind = "terminal" /\ last'.op \in Restoring /\ nops' = nops + 1) =>
          \A pre \in {ToSQL(Mach("s"), sel["s"])},
             post \in {ToSQL([strs |-> strs', anys |-> anys', id |-> "s"], sel'["s"])} :
              /\ post = pre
              /\ sel'["s"].columns = sel["s"].columns
              /\ sel'["s"].limit = sel["s"].limit]_vars

(* Field hit sql.ErrNoRows on a builder whose column list the caller had   *)
(* set and which carries a limit: both are as the caller left them         *)
C12_Witness ==
    /\ kind = "terminal"
    /\ last.op = "Field"
    /\ pag.res.error = "norows"
    /\ ~db.stub.on
    /\ Elems(strs, sel["s"].columns) = <<ColId, ColAge>>
    /\ sel["s"].limit = Ptr(MaxPerPage)

Set(xs) == {xs[k] : k \in DOMAIN xs}

Occurs(part, sql) ==
    \E k \in 1..(Len(sql) - Len(part) + 1) : SubSeq(sql, k, k + Len(part) - 1) = part

(* The columns a statement assigns in its conflict clause *)
AssignedColumns(sql) == {c \in {ColId, ColAge} : Occurs(Assignments(<<c>>)[1], sql)}

(* C13: the conflict clause assigns col = VALUES(col) to the columns in    *)
(* (updatable /\ requested) \/ (updatable \ excluded) and to no other, the *)
(* updatable columns being the ones the builder hands to the dialect; and  *)
(* in a statement of the upsert builder a column passed only to            *)
(* DoUpdateExcept is not assigned while every other inserted column is.    *)
C13_ConflictAssignments ==
    (kind = "conflict" /\ last.op = "ToSQL" /\ ups.values # <<>>) =>
        \A U \in {Set(ups.conflictColumns)}, R \in {Set(ups.updateColumns)},
           X \in {Set(ups.updateExcluded)}, assigned \in {AssignedColumns(out.sql)} :
            /\ (R # {} \/ X # {}) => assigned = (U \cap R) \cup (U \ X)
            /\ X # {} => \A c \in Set(ups.columns) :
                            /\ (c \in X /\ c \notin R) => c \notin assigned
                            /\ c \notin X => c \in assigned

(* C14: once row values are supplied, every statement the upsert builder   *)
(* renders has a conflict clause, ON DUPLICATE KEY UPDATE, whichever of    *)
(* OnConflict, DoUpdate, DoUpdateExcept, DoNothing and UpdateWhere were    *)
(* called.                                                                 *)
C14_ConflictClausePresent ==
    (kind = "conflict" /\ last.op = "ToSQL" /\ ups.values # <<>>) =>
        Occurs(Txt(<<"ON", "DUPLICATE", "KEY", "UPDATE">>), out.sql)

(* C15: after the same sequence of Where, WhereEq, WhereIn and WhereRaw    *)
(* calls the select, the update and the delete builder render the same     *)
(* text after WHERE, the fragments joined by AND with no connective in     *)
(* front, and the same WHERE arguments.                                    *)
C15_SameConditionAssembly ==
    (kind = "where" /\ nops > 0) =>
        \A s \in {ToSQL(Mach("s"), sel["s"])}, d \in {deleteBuilder_ToSQL(DelMach, del)},
           u \in {updateBuilder_buildSQL(upd)} :
            /\ AfterWhere(d.sql) = AfterWhere(s.sql)
            /\ AfterWhere(u.sql) = AfterWhere(s.sql)
            /\ d.args = s.args
            /\ u.args = s.args
            /\ ~HasPrefixTok(AfterWhere(s.sql), "AND")
            /\ ~HasPrefixTok(AfterWhere(s.sql), "OR")

Positional(values) == \A j \in DOMAIN values : values[j].shape = "int"

RowOf(values) == <<T("(")>> \o JoinSep(Placeholders(values), <<T(",")>>) \o <<T(")")>>

(* C16: with n >= 1 columns declared, Values(v1..vn) returns and adds one  *)
(* parenthesised row of n placeholders to the statement, after the quoted  *)
(* column list or after the rows of earlier calls, and v1..vn to the end   *)
(* of the arguments.                                                       *)
C16_PositionalValues ==
    [][(/\ kind = "rows"
        /\ last'.op = "Values" /\ nops' = nops + 1
        /\ Positional(last'.arg)
        /\ Len(last'.arg) >= 1
        /\ Len(last'.arg) = Len(ins.columns)) =>
          \A pre \in {buildValuesSQL(ins)}, post \in {buildValuesSQL(ins')} :
              /\ ~last'.panic
              /\ post.sql = pre.sql \o (IF ins.values = <<>> THEN <<T("VALUES")>> ELSE <<T(",")>>)
                                    \o RowOf(Raw(last'.arg))
              /\ post.args = pre.args \o Raw(last'.arg)]_vars

Unrecognised(v) ==
    \/ v.shape = "int"
    \/ v.shape = "slice" /\ v.elem = "int"

(* C17: Values handed one value of a shape it does not recognise never     *)
(* returns with the rows and the columns of the builder as they were, in   *)
(* the insert builder and in the upsert builder alike.                     *)
C17_UnrecognisedIsFatal ==
    [][(/\ kind \in {"rows", "conflict"}
        /\ last'.op = "Values" /\ nops' = nops + 1
        /\ Len(last'.arg) = 1
        /\ Unrecognised(last'.arg[1])) =>
          \/ last'.panic
          \/ <<ins'.columns, ins'.values, ups'.columns, ups'.values>>
                 # <<ins.columns, ins.values, ups.columns, ups.values>>]_vars

(* The statements the executor was handed, and the LogQuery calls made,    *)
(* during a step                                                           *)
NewStatements(before, after) == SubSeq(after.log, Len(before.log) + 1, Len(after.log))

NewLogQueries(before, after) == SubSeq(after.logq, Len(before.logq) + 1, Len(after.logq))

(* C18: with a logger configured, every statement a terminal method        *)
(* executes is followed by exactly one LogQuery call that carries the SQL  *)
(* and the arguments of that statement and the error of its execution.     *)
C18_EveryExecutionLogged ==
    [][(kind = "terminal" /\ sel["s"].logger /\ nops' = nops + 1) =>
          \A ran \in {NewStatements(db, db')}, logged \in {NewLogQueries(db, db')} :
              /\ Len(logged) = Len(ran)
              /\ \A k \in DOMAIN ran : logged[k].sql = ran[k].sql /\ logged[k].args = ran[k].args
              /\ (ran # <<>> /\ last'.op # "Paginate") =>
                    \/ logged[Len(logged)].err = pag'.res.error
                    \/ pag'.res.error = "missing"]_vars

(* The select-list entry an aggregate method installs *)
Installed(op) ==
    CASE op = "Count" -> Aggregate("COUNT", <<T("*")>>, "count")
      [] op = "CountColumn" -> Aggregate("COUNT", ColId, "count")
      [] op = "Sum" -> Aggregate("SUM", ColId, "sum")
      [] op = "Avg" -> Aggregate("AVG", ColId, "avg")
      [] op = "Max" -> Aggregate("MAX", ColId, "max")
      [] op = "Min" -> Aggregate("MIN", ColId, "min")

(* C19: an expression in the select list is rendered as it was supplied,   *)
(* not wrapped as one quoted identifier: the statement Count, CountColumn, *)
(* Sum, Avg, Max or Min executes has the aggregate expression, e.g. the    *)
(* count of all rows under the name count, as its select list.             *)
C19_SelectListVerbatim ==
    (kind = "terminal" /\ last.op \in {"Count", "CountColumn", "Sum", "Avg", "Max", "Min"}) =>
        Section(db.log[Len(db.log)].sql, "SELECT") = Installed(last.op)

(* C20: Sum and Avg return 0 and a nil error when the executor answers     *)
(* their statement with NULL, and the error of the execution, with no      *)
(* value, when the execution fails.                                        *)
C20_SumAvgNullAndError ==
    (kind = "terminal" /\ last.op \in {"Sum", "Avg"}) =>
        \A ans \in {Execute(db, db.log[Len(db.log)])}, r \in {pag.res} :
            /\ ans.err => (r.err /\ r.error = "exec" /\ r.value = 0)
            /\ (~ans.err /\ ans.rows # <<>>
                  /\ (IF last.op = "Sum" THEN ans.rows[1].sum.nil ELSE ans.rows[1].avg.nil)) =>
                  (~r.err /\ r.error = "" /\ r.value = 0)

(* Sum was answered with NULL *)
C20_Witness ==
    /\ kind = "terminal"
    /\ last.op = "Sum"
    /\ db.stub.on /\ ~db.stub.err /\ db.stub.rows # <<>> /\ db.stub.rows[1].sum.nil
    /\ ~pag.res.err /\ pag.res.value = 0

-----------------------------------------------------------------------------
(* Conditional predicates, HAVING, clones of the writing builders *)

Connective(c) == IF c.op \in OrVariants THEN "OR" ELSE "AND"

(* C21: WhenFunc(true, fn) on a select builder that holds predicates puts  *)
(* the first fragment fn adds behind the existing ones with AND, or with   *)
(* OR when an orWhere variant added it, and renders the later fragments of *)
(* fn as the same calls made directly after it render; on a builder        *)
(* without predicates the first fragment of fn follows WHERE without a     *)
(* connective; the arguments of fn follow the existing ones in call order; *)
(* WhenFunc(false, fn) and When(false, ...) leave SQL and arguments as     *)
(* they were.                                                              *)
C21_WhenFuncConnectives ==
    [][(last'.op \in {"When", "WhenFunc"} /\ nops' = nops + 1) =>
        \A pre \in {Rendering("s")},
           post \in {ToSQL([strs |-> strs', anys |-> anys', id |-> "s"], sel'["s"])},
           fn \in {last'.fn} :
            IF ~last'.condition \/ (last'.op = "WhenFunc" /\ fn = <<>>)
            THEN post = pre
            ELSE IF last'.op = "When"
            THEN /\ Len(post.args) = Len(pre.args) + 1
                 /\ SubSeq(post.args, 1, Len(pre.args)) = pre.args
            ELSE \A w \in {AfterWhere(pre.sql)}, w2 \in {AfterWhere(post.sql)},
                    first \in {FnEntry(fn[1])[1].body},
                    one \in {WhenFunc(Mach("s"), sel["s"], TRUE, <<fn[1]>>)} :
                    \A direct \in {Fn([strs |-> one.strs, anys |-> one.anys, id |-> "s"],
                                      one.b, Tail(fn))} :
                        /\ IF sel["s"].wheres.len > 0
                           THEN SubSeq(w2, 1, Len(w) + 1 + Len(first))
                                    = w \o <<T(Connective(fn[1]))>> \o first
                           ELSE SubSeq(w2, 1, Len(first)) = first
                        /\ w2 = AfterWhere(ToSQL([strs |-> direct.strs, anys |-> direct.anys,
                                                  id |-> "s"], direct.b).sql)
                        /\ post.args = pre.args \o HistArgs(FnEntries(fn))
                        /\ SubSeq(post.sql, 1, Len(pre.sql) - Len(w))
                               = SubSeq(pre.sql, 1, Len(pre.sql) - Len(w))]_vars

C21_Witness ==
    /\ kind = "when"
    /\ last.op = "WhenFunc"
    /\ last.condition
    /\ Len(last.fn) = 2
    /\ last.fn[1].op = "OrWhere"
    /\ last.fn[2].op = "WhereRaw"
    /\ sel["s"].wheres.len = 3

(* The text of the HAVING clause: what stands between HAVING and the next  *)
(* clause keyword or the end of the statement.                             *)
AfterHaving(sql) ==
    LET h    == IndexOf(sql, "HAVING")
        ends == {k \in (h + 1)..Len(sql) : sql[k][1] \in {"ORDER", "LIMIT", "OFFSET"}}
        e    == IF ends = {} THEN Len(sql) + 1 ELSE CHOOSE k \in ends : \A j \in ends : k <= j
    IN  IF h = 0 THEN <<>> ELSE SubSeq(sql, h + 1, e - 1)

(* C22: after n >= 1 Having calls on the select builder the HAVING clause  *)
(* is the conditions in call order with exactly one connective, AND,       *)
(* between every two consecutive ones, and the arguments of ToSQL are the  *)
(* WHERE arguments followed by the HAVING arguments, each in call order.   *)
C22_HavingConnectives ==
    (kind = "select" /\ stk = <<>> /\ HavingHist(gh["s"]) # <<>>) =>
        /\ AfterHaving(Rendering("s").sql) = ReferenceWhere(HavingHist(gh["s"]))
        /\ Rendering("s").args
               = HistArgs(WhereHist(gh["s"])) \o HistArgs(HavingHist(gh["s"]))

(* What ToSQL of the builder of the scenario returns (w = "b") and what    *)
(* ToSQL of its clone returns (w = "c"), in a state given by its parts.    *)
WriterSQL(w, k, h, a, selects, d, i, u) ==
    CASE k = "insert.clone" -> insertBuilder_buildSQL([strs |-> h, anys |-> a, id |-> "s"], i, selects)
      [] k = "update.clone" -> updateBuilder_buildSQL(u)
      [] k = "delete.clone" -> deleteBuilder_ToSQL([strs |-> h, anys |-> a, id |-> w], d)

(* C23: once c = b.Clone() is taken of an insert, update or delete builder *)
(* b, no call on b and no call on the select builder b embeds through      *)
(* FromSelect changes what c.ToSQL() returns, and no call on c changes     *)
(* what b.ToSQL() returns.                                                 *)
C23_WriterClonesIndependent ==
    [][(kind \in CloneKinds /\ cloned /\ nops' = nops + 1) =>
        /\ (last'.on = "b" \/ (last'.on = "s" /\ ins.fromSelect = "s")) =>
              WriterSQL("c", kind, strs', anys', sel', clones'.del, clones'.ins, clones'.upd)
                  = WriterSQL("c", kind, strs, anys, sel, clones.del, clones.ins, clones.upd)
        /\ last'.on = "c" =>
              WriterSQL("b", kind, strs', anys', sel', del', ins', upd')
                  = WriterSQL("b", kind, strs, anys, sel, del, ins, upd)]_vars

(* A join condition with every identifier token wrapped on its own and the *)
(* words AND, OR, ON, AS, in any letter case, left as they are.            *)
QuotedPerToken(condition) ==
    Flatten([k \in DOMAIN condition |->
                IF IsIdentifier(condition[k]) /\ ToUpper(condition[k]) \notin Keywords
                THEN QuoteIdentifier(<<condition[k]>>)
                ELSE <<condition[k]>>])

(* C24: in the text a join call stores, what follows ON is the condition   *)
(* with every bare identifier token quoted on its own (each segment of a   *)
(* dotted name separately) and AND, OR, ON, AS in any letter case left     *)
(* unquoted.                                                               *)
C24_JoinConditionQuoting ==
    kind = "join" =>
        \A joins \in {Elems(strs, sel["s"].joins)} :
            \A k \in DOMAIN joins :
                SubSeq(joins[k], IndexOf(joins[k], "ON") + 1, Len(joins[k]))
                    = QuotedPerToken(gh["s"][k].body)

(* C25: in the statement of the select builder no opening parenthesis is   *)
(* directly followed by the connective AND or OR: the text of a group that *)
(* WhereGroup or OrWhereGroup produced, at any depth, begins with a        *)
(* condition, whichever predicate call the callback made first.            *)
C25_GroupNoLeadingConnective ==
    (kind = "select" /\ stk = <<>>) =>
        \A sql \in {Rendering("s").sql} :
            \A k \in 1..(Len(sql) - 1) :
                sql[k][1] = "(" => sql[k + 1][1] \notin {"AND", "OR"}

(* C26: after any number of OrderBy and OrderByDesc calls the statement of *)
(* the select builder, and of its clone, contains the keyword ORDER at     *)
(* most once.                                                              *)
C26_OneOrderBy ==
    (kind = "clone" /\ stk = <<>>) =>
        \A i \in Roots : Occurrences(Rendering(i).sql, "ORDER") <= 1

(* C27: whenever Paginate has returned without error, for every page and  *)
(* perPage from 1 on, pages behind the last one included: if From > 0     *)
(* then From <= To <= Total and To - From + 1 is the number of rows       *)
(* returned, and if no row is returned then From = To = 0.                *)
C27_FromToBounds ==
    (kind = "pages" /\ last.op = "Paginate" /\ ~pag.res.err) =>
        \A r \in {pag.res} :
            /\ r.From > 0 =>
                  /\ r.From <= r.To
                  /\ r.To <= r.Total
                  /\ r.To - r.From + 1 = Len(r.Data)
            /\ Len(r.Data) = 0 => r.From = 0 /\ r.To = 0

(* The number of placeholders of every row of the VALUES clause: a row is  *)
(* what stands between an opening parenthesis after VALUES and the next    *)
(* closing one.                                                            *)
RowWidths(sql) ==
    LET v     == IndexOf(sql, "VALUES")
        opens == {k \in (v + 1)..Len(sql) : sql[k][1] = "("}
        Close(k) == CHOOSE j \in (k + 1)..Len(sql) :
                        sql[j][1] = ")" /\ \A m \in (k + 1)..(j - 1) : sql[m][1] # ")"
    IN  IF v = 0 THEN {}
        ELSE {Cardinality({m \in (k + 1)..(Close(k) - 1) : sql[m][1] = PlaceholderFormat}) :
                 k \in opens}

(* C28: in every statement the insert builder renders with a VALUES clause *)
(* and a column list that is not empty, every row has as many placeholders *)
(* as the column list has entries, whatever the order of the Columns and   *)
(* Values calls.                                                           *)
C28_RowWidthIsColumnCount ==
    (kind = "rows" /\ ~Panicked /\ ins.columns # <<>>) =>
        \A w \in RowWidths(insertBuilder_buildSQL([strs |-> strs, anys |-> anys, id |-> "s"],
                                                  ins, sel).sql) :
            w = Len(ins.columns)

(* The builder that received the WhereGroup or OrWhereGroup call whose     *)
(* callback is the innermost one running, given the open callbacks.        *)
OuterOf(frames, selects) == IF Len(frames) <= 1 THEN selects["s"] ELSE frames[2].b

OuterId(frames) == IF Len(frames) <= 1 THEN "s" ELSE frames[2].id

(* What a builder renders without its predicates: every other clause *)
OtherClauses(h, a, id, b) ==
    ToSQL([strs |-> h, anys |-> a, id |-> id],
          [b EXCEPT !.wheres = NilSlice, !.whereArgs = NilSlice])

(* C29: the callback of WhereGroup and OrWhereGroup is handed a builder    *)
(* without predicates; the calls it makes change nothing of the builder    *)
(* that received the group call; when the callback returns, every clause   *)
(* of that builder other than WHERE renders as before, whatever From,      *)
(* join, group-by, having, order-by, limit and offset calls the callback   *)
(* made; and if the callback added no predicate the SQL and the arguments  *)
(* of that builder are as before.                                          *)
C29_GroupCallbackIsolated ==
    [][kind = "group" =>
        /\ (last'.op = "fn" /\ Len(stk') = Len(stk) + 1) =>
              /\ Head(stk').b.wheres.len = 0
              /\ Head(stk').b.whereArgs.len = 0
        /\ (stk # <<>> /\ Len(stk') = Len(stk)) =>
              /\ OuterOf(stk', sel') = OuterOf(stk, sel)
              /\ ToSQL([strs |-> strs', anys |-> anys', id |-> OuterId(stk)], OuterOf(stk', sel'))
                     = ToSQL([strs |-> strs, anys |-> anys, id |-> OuterId(stk)], OuterOf(stk, sel))
        /\ Len(stk') = Len(stk) - 1 =>
              \A before \in {OuterOf(stk, sel)},
                 after \in {IF stk' = <<>> THEN sel'["s"] ELSE Head(stk').b} :
                  /\ OtherClauses(strs', anys', OuterId(stk), after)
                         = OtherClauses(strs, anys, OuterId(stk), before)
                  /\ Head(stk).b.wheres.len = 0 =>
                        ToSQL([strs |-> strs', anys |-> anys', id |-> OuterId(stk)], after)
                            = ToSQL([strs |-> strs, anys |-> anys, id |-> OuterId(stk)], before)]_vars

C29_Witness ==
    /\ kind = "group"
    /\ stk = <<>>
    /\ last.op \in {"WhereGroup", "OrWhereGroup"}
    /\ last.builder.wheres.len = 1
    /\ ~last.builder.limit.nil
    /\ last.builder.table # <<>>
    /\ sel["s"].limit.nil
    /\ sel["s"].table = <<>>
    /\ sel["s"].wheres.len = 1

(* What the query handed to ProcessInBatches yields when it is run *)
QueryResult == Rows(Mach("s"), sel["s"], db).res

(* C30: ProcessInBatches over a query whose result is N rows that do not   *)
(* change, with a batch size from 1 on, ends after at most N / batchSize   *)
(* + 1 executions; what it has handed to the processor is at every moment  *)
(* a prefix of the result in batches of at most batchSize rows, and the    *)
(* whole result, every row once, when it has ended; and the query renders  *)
(* the same SQL and arguments as when the call began.                      *)
C30_EveryRowOnceInBatches ==
    (kind = "batches" /\ trav.state # "idle" /\ ~QueryResult.err) =>
        \A result \in {QueryResult.data}, passed \in {Flatten(trav.batches)} :
            /\ trav.state # "error"
            /\ Len(db.log) <= Len(result) \div trav.batchSize + 1
            /\ \A k \in DOMAIN trav.batches : Len(trav.batches[k]) <= trav.batchSize
            /\ Len(passed) <= Len(result)
            /\ passed = SubSeq(result, 1, Len(passed))
            /\ trav.state = "done" => passed = result
            /\ Rendering("s") = trav.before
====
